---- MODULE Spec2Model ----
(***************************************************************************)
(* State-machine model of the PickBetter client (frontend/App.tsx and the  *)
(* screens and auth context it coordinates): scan handler, response        *)
(* normalisation, bounded scan history and its local store, auth routing.  *)
(***************************************************************************)
EXTENDS Integers, Sequences, FiniteSets, TLC

(***************************************************************************)
(* Bounds of the model.                                                    *)
(***************************************************************************)
\* number of scan-handler invocations started in one run
MaxScans == 3
\* auth states the provider may owe the listener at one time
MaxNotify == 2
\* number of scan-handler invocations started in one run of the whole app
\* and of the specification that draws every response body
MaxAppScans == 2
\* number of contribution submissions started in one run
MaxContribs == 1
\* readings of the millisecond clock (Date.now) after start-up
MaxClock == 1
\* clock readings that fall into one minute of the formatted timestamp
ClockPerMinute == 2
\* number of chat sends started in one run
MaxChats == 2
\* milliseconds the chat clock advances in one step
ChatStep == 15000
\* last reading of the chat clock
MaxChatTime == 60000

(***************************************************************************)
(* Program constants.                                                      *)
(***************************************************************************)
\* [newItem, ...prev].slice(0, 50)
HISTORY_CAP == 50

\* setTimeout(() => controller.abort(), 45000)
CHAT_TIMEOUT == 45000

GRADES == {"A", "B", "C", "D", "F"}

(***************************************************************************)
(* JSON / JavaScript values.  A value is tagged with its JavaScript type;  *)
(* an object carries a function from its own keys to values, an array a    *)
(* sequence of values.                                                     *)
(***************************************************************************)
Undefined == [t |-> "undefined"]
Null == [t |-> "null"]
Bool(b) == [t |-> "boolean", b |-> b]
Num(n) == [t |-> "number", n |-> n]
Str(s) == [t |-> "string", s |-> s]
Obj(f) == [t |-> "object", o |-> f]
Arr(a) == [t |-> "array", a |-> a]
EmptyObj == Obj(<<>>)

\* v == null  (loose equality with null: null or undefined)
IsNullish(v) == v.t \in {"undefined", "null"}

\* a ?? b
Coalesce(a, b) == IF IsNullish(a) THEN b ELSE a

\* ToBoolean(v)
Truthy(v) ==
    CASE v.t \in {"undefined", "null"} -> FALSE
      [] v.t = "boolean" -> v.b
      [] v.t = "number" -> v.n # 0
      [] v.t = "string" -> v.s # ""
      [] OTHER -> TRUE

\* a || b
OrElse(a, b) == IF Truthy(a) THEN a ELSE b

\* v?.k and, for a non-nullish v, v[k]: an own key of an object, undefined on
\* every other value (no key read by the program is a property of a
\* primitive or of Array.prototype)
Get(v, k) == IF v.t = "object" /\ k \in DOMAIN v.o THEN v.o[k] ELSE Undefined

\* typeof v === 'number'
IsNumber(v) == v.t = "number"

\* String(v), as a template literal `${v}` computes it
RECURSIVE ToStringJS(_)
JoinJS(a) ==
    LET RECURSIVE Join(_)
        Join(i) ==
            IF i > Len(a) THEN ""
            ELSE (IF i > 1 THEN "," ELSE "")
                 \o (IF IsNullish(a[i]) THEN "" ELSE ToStringJS(a[i]))
                 \o Join(i + 1)
    IN Join(1)
ToStringJS(v) ==
    CASE v.t = "undefined" -> "undefined"
      [] v.t = "null" -> "null"
      [] v.t = "boolean" -> (IF v.b THEN "true" ELSE "false")
      [] v.t = "number" -> ToString(v.n)
      [] v.t = "string" -> v.s
      [] v.t = "array" -> JoinJS(v.a)
      [] OTHER -> "[object Object]"

(***************************************************************************)
(* String.prototype.toLowerCase and String.prototype.includes.             *)
(***************************************************************************)
LowerChar(c) ==
    CASE c = "A" -> "a" [] c = "B" -> "b" [] c = "C" -> "c" [] c = "D" -> "d"
      [] c = "E" -> "e" [] c = "F" -> "f" [] c = "G" -> "g" [] c = "H" -> "h"
      [] c = "I" -> "i" [] c = "J" -> "j" [] c = "K" -> "k" [] c = "L" -> "l"
      [] c = "M" -> "m" [] c = "N" -> "n" [] c = "O" -> "o" [] c = "P" -> "p"
      [] c = "Q" -> "q" [] c = "R" -> "r" [] c = "S" -> "s" [] c = "T" -> "t"
      [] c = "U" -> "u" [] c = "V" -> "v" [] c = "W" -> "w" [] c = "X" -> "x"
      [] c = "Y" -> "y" [] c = "Z" -> "z" [] OTHER -> c

RECURSIVE toLowerCase(_)
toLowerCase(s) ==
    IF s = "" THEN ""
    ELSE LowerChar(SubSeq(s, 1, 1)) \o toLowerCase(SubSeq(s, 2, Len(s)))

\* s.includes(kw)
includes(s, kw) ==
    \E i \in 1..(Len(s) - Len(kw) + 1) : SubSeq(s, i, i + Len(kw) - 1) = kw

(***************************************************************************)
(* The scan handler's normalisation of a success response                  *)
(* (App.tsx, onBarcodeDetected, lines 190-248).                            *)
(***************************************************************************)
\* const geminiData = scanResult?.data ?? scanResult
geminiDataOf(scanResult) == Coalesce(Get(scanResult, "data"), scanResult)

\* const prod = geminiData?.original_product ?? {}
prodOf(geminiData) == Coalesce(Get(geminiData, "original_product"), EmptyObj)

\* const analysis = geminiData?.gemini_analysis ?? {}
analysisOf(geminiData) == Coalesce(Get(geminiData, "gemini_analysis"), EmptyObj)

\* const nutriments = prod?.nutriments ?? {}
nutrimentsOf(prod) == Coalesce(Get(prod, "nutriments"), EmptyObj)

\* const nut = (keys) => { for (const k of keys) if (nutriments[k] != null) return nutriments[k]; return null; }
nut(nutriments, keys) ==
    LET hits == {i \in 1..Len(keys) : ~IsNullish(Get(nutriments, keys[i]))}
    IN IF hits = {} THEN Null
       ELSE Get(nutriments, keys[CHOOSE i \in hits : \A j \in hits : i <= j])

CALORIE_KEYS == <<"energy-kcal_100g", "energy_kcal_100g", "calories_100g">>
PROTEIN_KEYS == <<"proteins_100g", "protein_100g", "protein">>
CARB_KEYS == <<"carbohydrates_100g", "carbohydrate_100g", "carbs_100g">>
FAT_KEYS == <<"fat_100g", "fats_100g", "total_fat_100g">>

\* nut(keys) != null ? `${nut(keys)}<unit>` : 'N/A'
Macro(nutriments, keys, unit) ==
    IF ~IsNullish(nut(nutriments, keys))
    THEN Str(ToStringJS(nut(nutriments, keys)) \o unit)
    ELSE Str("N/A")

\* const ingredientsText: string = prod?.ingredients_text ?? ''
ingredientsTextOf(prod) == Coalesce(Get(prod, "ingredients_text"), Str(""))

\* the grade taken as the contribution handler takes it: analysis?.grade || 'C'
ScanGradeUnvalidated(analysis) == OrElse(Get(analysis, "grade"), Str("C"))

\* ['A','B','C','D','F'].includes(analysis?.grade) ? analysis.grade : 'C'
ScanGrade(analysis) ==
    LET g == Get(analysis, "grade")
    IN IF g.t = "string" /\ g.s \in GRADES THEN g ELSE Str("C")

\* typeof analysis?.score === 'number' ? analysis.score : 50
ScanScore(analysis) ==
    LET sc == Get(analysis, "score")
    IN IF IsNumber(sc) THEN sc ELSE Num(50)

\* the keyword table of the allergen filter; keywords[a] ?? [a]
keywords(a) ==
    CASE a = "peanuts" -> <<"peanut", "groundnut">>
      [] a = "nuts" -> <<"almond", "walnut", "cashew", "pistachio", "nut">>
      [] a = "milk" -> <<"milk", "dairy", "lactose", "cheese", "yogurt", "cream", "butter">>
      [] a = "eggs" -> <<"egg", "albumin">>
      [] a = "soy" -> <<"soy", "soya", "soybean", "tofu">>
      [] a = "wheat" -> <<"wheat", "gluten", "flour", "maida">>
      [] OTHER -> <<a>>

\* the filter callback without `allergen.toLowerCase()`
allergenDetectedAsTyped(ingredientsText, allergen) ==
    LET ing == toLowerCase(ingredientsText.s)
        kws == keywords(allergen)
    IN \E i \in 1..Len(kws) : includes(ing, kws[i])

\* the filter callback, for an ingredientsText that is a string
allergenDetected(ingredientsText, allergen) ==
    LET ing == toLowerCase(ingredientsText.s)
        kws == keywords(toLowerCase(allergen))
    IN \E i \in 1..Len(kws) : includes(ing, kws[i])

\* (userProfile?.allergens || []).filter(...)
detectedAllergensOf(ingredientsText, allergens) ==
    SelectSeq(allergens, LAMBDA a : allergenDetected(ingredientsText, a))

\* an alternative given the defaults of the primary product: 'C' and 50
ScanAlternativeAsPrimary(rec) ==
    LET product == Get(rec, "product")
        an == Get(rec, "analysis")
    IN [name |-> OrElse(Get(product, "product_name"),
                        OrElse(Get(product, "name"), Str("Unknown"))),
        brand |-> OrElse(Get(product, "brands"),
                         OrElse(Get(product, "brand"), Str(""))),
        grade |-> OrElse(Get(an, "grade"), Str("C")),
        score |-> Coalesce(Get(an, "score"), Num(50)),
        reasoning |-> OrElse(Get(rec, "personalized_recommendation"),
                             OrElse(Get(rec, "reasoning"), Str(""))),
        image_url |-> OrElse(Get(rec, "image_url"),
                             OrElse(Get(product, "image_url"), Null))]

\* one entry of (geminiData?.recommendations ?? []).map(rec => ...)
ScanAlternative(rec) ==
    LET product == Get(rec, "product")
        an == Get(rec, "analysis")
    IN [name |-> OrElse(Get(product, "product_name"),
                        OrElse(Get(product, "name"), Str("Unknown"))),
        brand |-> OrElse(Get(product, "brands"),
                         OrElse(Get(product, "brand"), Str(""))),
        grade |-> OrElse(Get(an, "grade"), Str("B")),
        score |-> Coalesce(Get(an, "score"), Num(70)),
        reasoning |-> OrElse(Get(rec, "personalized_recommendation"),
                             OrElse(Get(rec, "reasoning"), Str(""))),
        image_url |-> OrElse(Get(rec, "image_url"),
                             OrElse(Get(product, "image_url"), Null))]

recommendationsOf(geminiData) == Coalesce(Get(geminiData, "recommendations"), Arr(<<>>))

\* The TypeError the normalisation raises, or "" when it raises none:
\* ingredientsText.toLowerCase is called once per registered allergen and is
\* no function unless ingredientsText is a string; .map is no function unless
\* recommendations is an array.  The filter is evaluated before the map.
ScanThrows(scanResult, allergens) ==
    LET g == geminiDataOf(scanResult)
    IN IF allergens # <<>> /\ ingredientsTextOf(prodOf(g)).t # "string"
       THEN "ingredientsText.toLowerCase is not a function"
       ELSE IF recommendationsOf(g).t # "array"
       THEN "(intermediate value).map is not a function"
       ELSE ""

\* const foodAnalysis: FoodAnalysis = { ... }, when nothing is thrown
ScanFoodAnalysis(scanResult, allergens) ==
    LET g == geminiDataOf(scanResult)
        prod == prodOf(g)
        analysis == analysisOf(g)
        nutriments == nutrimentsOf(prod)
        ingredientsText == ingredientsTextOf(prod)
        recs == recommendationsOf(g).a
    IN [productName |-> OrElse(Get(prod, "product_name"),
                               OrElse(Get(prod, "name"), Str("Unknown Product"))),
        brand |-> OrElse(Get(prod, "brands"), OrElse(Get(prod, "brand"), Str(""))),
        grade |-> ScanGrade(analysis),
        score |-> ScanScore(analysis),
        reason |-> OrElse(Get(analysis, "reasoning"),
                          OrElse(Get(analysis, "reason"), Str(""))),
        ingredients |-> IF Truthy(ingredientsText) THEN <<ingredientsText>> ELSE <<>>,
        macros |-> [calories |-> Macro(nutriments, CALORIE_KEYS, " kcal"),
                    protein |-> Macro(nutriments, PROTEIN_KEYS, "g"),
                    carbs |-> Macro(nutriments, CARB_KEYS, "g"),
                    fat |-> Macro(nutriments, FAT_KEYS, "g")],
        detectedAllergens |-> IF allergens = <<>> THEN <<>>
                              ELSE detectedAllergensOf(ingredientsText, allergens),
        alternatives |-> [i \in 1..Len(recs) |-> ScanAlternative(recs[i])],
        image_url |-> OrElse(Get(prod, "image_url"), Null),
        gemini_analysis |-> analysis,
        user_context |-> OrElse(Get(g, "user_context"), Str(""))]

(***************************************************************************)
(* History items and the local store (App.tsx, saveToHistory and the       *)
(* routing effect).                                                        *)
(***************************************************************************)
\* new Date().toLocaleString(...): day, month, hour and minute of the reading
FormatTime(t) == t \div ClockPerMinute

\* const newItem: HistoryItem = { id: `${Date.now()}`, ... }
NewItem(analysis, t) ==
    [id |-> ToString(t),
     name |-> analysis.productName,
     brand |-> OrElse(analysis.brand, Str("")),
     grade |-> analysis.grade,
     score |-> analysis.score,
     timestamp |-> FormatTime(t),
     fullAnalysis |-> analysis]

\* the slice left out: the list is never cut
SliceCapNone(list) == list

\* list.slice(0, 50)
SliceCap(list) ==
    IF Len(list) <= HISTORY_CAP THEN list ELSE SubSeq(list, 1, HISTORY_CAP)

\* const updated = [newItem, ...prev].slice(0, 50)
UpdatedHistory(prev, newItem) == SliceCap(<<newItem>> \o prev)

\* JSON.parse(JSON.stringify(v)) of a value: a key whose value is undefined is
\* dropped (reading it gives undefined again), an undefined array element
\* becomes null
RECURSIVE JsonRoundTrip(_)
JsonRoundTrip(v) ==
    CASE v.t = "object" ->
           Obj([k \in {x \in DOMAIN v.o : v.o[x].t # "undefined"} |-> JsonRoundTrip(v.o[k])])
      [] v.t = "array" ->
           Arr([i \in 1..Len(v.a) |->
                  IF v.a[i].t = "undefined" THEN Null ELSE JsonRoundTrip(v.a[i])])
      [] OTHER -> v

RoundTripAlternative(alt) ==
    [name |-> JsonRoundTrip(alt.name), brand |-> JsonRoundTrip(alt.brand),
     grade |-> JsonRoundTrip(alt.grade), score |-> JsonRoundTrip(alt.score),
     reasoning |-> JsonRoundTrip(alt.reasoning),
     image_url |-> JsonRoundTrip(alt.image_url)]

RoundTripAnalysis(fa) ==
    [productName |-> JsonRoundTrip(fa.productName),
     brand |-> JsonRoundTrip(fa.brand),
     grade |-> JsonRoundTrip(fa.grade),
     score |-> JsonRoundTrip(fa.score),
     reason |-> JsonRoundTrip(fa.reason),
     ingredients |-> [i \in 1..Len(fa.ingredients) |-> JsonRoundTrip(fa.ingredients[i])],
     macros |-> fa.macros,
     detectedAllergens |-> fa.detectedAllergens,
     alternatives |-> [i \in 1..Len(fa.alternatives) |->
                         RoundTripAlternative(fa.alternatives[i])],
     image_url |-> JsonRoundTrip(fa.image_url),
     gemini_analysis |-> JsonRoundTrip(fa.gemini_analysis),
     user_context |-> JsonRoundTrip(fa.user_context)]

RoundTripItem(item) ==
    [id |-> item.id,
     name |-> JsonRoundTrip(item.name),
     brand |-> JsonRoundTrip(item.brand),
     grade |-> JsonRoundTrip(item.grade),
     score |-> JsonRoundTrip(item.score),
     timestamp |-> item.timestamp,
     fullAnalysis |-> RoundTripAnalysis(item.fullAnalysis)]

\* what JSON.parse reads back from localStorage.setItem(key, JSON.stringify(list))
StoredList(list) == [i \in 1..Len(list) |-> RoundTripItem(list[i])]

(***************************************************************************)
(* The contribution handler's normalisation (App.tsx,                      *)
(* onContributionSuccess, lines 286-325).                                  *)
(***************************************************************************)
\* result.status === 'success' && result.data   (result is not nullish)
ContribIsSuccess(result) ==
    Get(result, "status") = Str("success") /\ Truthy(Get(result, "data"))

\* truthy ? `${v}<unit>` : 'N/A'
ContribMacro(v, unit) ==
    IF Truthy(v) THEN Str(ToStringJS(v) \o unit) ELSE Str("N/A")

\* one entry of geminiData.recommendations?.map(rec => ...), rec not nullish
ContribAlternative(rec) ==
    [name |-> Get(Get(rec, "product"), "product_name"),
     brand |-> Get(Get(rec, "product"), "brands"),
     grade |-> Get(Get(rec, "analysis"), "grade"),
     score |-> Get(Get(rec, "analysis"), "score"),
     reasoning |-> OrElse(Get(rec, "personalized_recommendation"), Get(rec, "reasoning")),
     image_url |-> Get(rec, "image_url")]

\* The TypeError onContributionSuccess raises, or "" when it raises none:
\* result.status on a nullish result, .map on a recommendations value that is
\* neither nullish nor an array, rec.product on a nullish entry.
ContribThrows(result) ==
    IF IsNullish(result) THEN "Cannot read properties of null (reading 'status')"
    ELSE IF ~ContribIsSuccess(result) THEN ""
    ELSE LET recs == Get(Get(result, "data"), "recommendations")
         IN IF IsNullish(recs) THEN ""
            ELSE IF recs.t # "array"
            THEN "geminiData.recommendations?.map is not a function"
            ELSE IF \E i \in 1..Len(recs.a) : IsNullish(recs.a[i])
            THEN "Cannot read properties of null (reading 'product')"
            ELSE ""

\* const foodAnalysis: FoodAnalysis = { ... } of onContributionSuccess
ContribFoodAnalysis(result) ==
    LET geminiData == Get(result, "data")
        op == Get(geminiData, "original_product")
        an == Get(geminiData, "gemini_analysis")
        nutriments == Get(op, "nutriments")
        recs == Get(geminiData, "recommendations")
    IN [productName |-> OrElse(Get(op, "product_name"), Str("Unknown Product")),
        brand |-> OrElse(Get(op, "brands"), Str("")),
        grade |-> OrElse(Get(an, "grade"), Str("C")),
        score |-> OrElse(Get(an, "score"), Num(50)),
        reason |-> OrElse(Get(an, "reasoning"), Str("")),
        ingredients |-> IF Truthy(Get(op, "ingredients_text"))
                        THEN <<Get(op, "ingredients_text")>> ELSE <<>>,
        macros |-> [calories |-> ContribMacro(Get(nutriments, "energy-kcal_100g"), " kcal"),
                    protein |-> ContribMacro(Get(nutriments, "proteins_100g"), "g"),
                    carbs |-> ContribMacro(Get(nutriments, "carbohydrates_100g"), "g"),
                    fat |-> ContribMacro(Get(nutriments, "fat_100g"), "g")],
        detectedAllergens |-> <<>>,
        alternatives |-> IF IsNullish(recs) THEN <<>>
                         ELSE [i \in 1..Len(recs.a) |-> ContribAlternative(recs.a[i])],
        image_url |-> Get(op, "image_url"),
        gemini_analysis |-> an,
        user_context |-> Undefined]

(***************************************************************************)
(* Opening a history item (App.tsx, handleHistoryItemClick).               *)
(***************************************************************************)
GradeScore(grade) ==
    IF grade = Str("A") THEN 92 ELSE IF grade = Str("B") THEN 78
    ELSE IF grade = Str("C") THEN 62 ELSE IF grade = Str("D") THEN 45 ELSE 20

\* the item's fullAnalysis ignored: always the minimal analysis
HistoryItemMinimal(item) ==
    [productName |-> item.name,
     brand |-> item.brand,
     grade |-> item.grade,
     score |-> OrElse(item.score, Num(GradeScore(item.grade))),
     reason |-> Str("Historical scan for " \o ToStringJS(item.name) \o "."),
     ingredients |-> <<>>,
     macros |-> [calories |-> Str("N/A"), protein |-> Str("N/A"),
                 carbs |-> Str("N/A"), fat |-> Str("N/A")],
     detectedAllergens |-> <<>>,
     alternatives |-> <<>>,
     image_url |-> Undefined,
     gemini_analysis |-> Undefined,
     user_context |-> Undefined]

\* (item as any).fullAnalysis || { ...minimal analysis... }
HistoryItemAnalysis(item) ==
    IF item.fullAnalysis # Undefined /\ item.fullAnalysis # Null
    THEN item.fullAnalysis
    ELSE [productName |-> item.name,
          brand |-> item.brand,
          grade |-> item.grade,
          score |-> OrElse(item.score, Num(GradeScore(item.grade))),
          reason |-> Str("Historical scan for " \o ToStringJS(item.name) \o "."),
          ingredients |-> <<>>,
          macros |-> [calories |-> Str("N/A"), protein |-> Str("N/A"),
                      carbs |-> Str("N/A"), fat |-> Str("N/A")],
          detectedAllergens |-> <<>>,
          alternatives |-> <<>>,
          image_url |-> Undefined,
          gemini_analysis |-> Undefined,
          user_context |-> Undefined]

(***************************************************************************)
(* Inputs from the environment: users, barcodes, HTTP statuses and         *)
(* response bodies of the scan and contribution endpoints.                 *)
(***************************************************************************)
Users == {"u1", "u2"}
NoUser == "null"

\* the barcode of the scanner's test button
TEST_BARCODE == "8902579003616"

\* strings the camera decodes or the user types into the manual entry field
Barcodes == {"8902579003616", " abc ", "  "}

\* tags the profile screen can toggle in userProfile.allergens
AllergenTags == {"Soy"}

Statuses == {200, 404, 500}

\* statuses of POST /contribute/
ContribStatuses == {200, 429, 500}

\* the ok test left out: every response is parsed as a success
IsOkAlways(status) == TRUE

\* response.ok
IsOk(status) == status \in 200..299

\* a body that is not JSON: response.json() rejects
NotJson == [t |-> "invalid"]

BodyChocoBar ==
    Obj("data" :> Obj(
        ("original_product" :> Obj(("product_name" :> Str("Choco Bar"))
                                   @@ ("nutriments" :> Obj("energy-kcal_100g" :> Num(500)))))
        @@ ("gemini_analysis" :> Obj(("grade" :> Str("D")) @@ ("score" :> Num(40))
                                     @@ ("reasoning" :> Str("High sugar"))))))

BodyRootLevel ==
    Obj(("original_product" :> Obj(("name" :> Str("Atta"))
                                   @@ ("ingredients_text" :> Str("Whole Wheat Flour, Soya"))))
        @@ ("gemini_analysis" :> Obj(("grade" :> Str("A")) @@ ("score" :> Num(92))))
        @@ ("recommendations" :> Arr(<<Obj("product" :> Obj("name" :> Str("Oats"))), Null>>)))

BodyLowercase ==
    Obj("gemini_analysis" :> Obj(("grade" :> Str("a")) @@ ("score" :> Str("85"))))

BodyOutOfRange ==
    Obj("gemini_analysis" :> Obj(("grade" :> Num(1)) @@ ("score" :> Num(150))))

BodyNegative ==
    Obj("gemini_analysis" :> Obj(("grade" :> Null) @@ ("score" :> Num(-5))))

\* no grade and no score, neither for the product nor for the first alternative
BodyNoGrades ==
    Obj(("gemini_analysis" :> Obj("reasoning" :> Str("No data")))
        @@ ("recommendations" :>
              Arr(<<Obj("product" :> Obj("product_name" :> Str("Oats"))),
                    Obj(("product" :> Obj("product_name" :> Str("Muesli")))
                        @@ ("analysis" :> Obj(("grade" :> Str("A")) @@ ("score" :> Num(90)))))>>)))

\* the data of a scan under the keys product and analysis
BodyOtherKeys ==
    Obj(("product" :> Obj(("product_name" :> Str("Ragi Chips"))
                          @@ ("nutriments" :> Obj("proteins_100g" :> Num(7)))))
        @@ ("analysis" :> Obj(("grade" :> Str("A")) @@ ("score" :> Num(90)))))

\* the same data under the keys original_product and gemini_analysis
BodySameData ==
    Obj(("original_product" :> Obj(("product_name" :> Str("Ragi Chips"))
                                   @@ ("nutriments" :> Obj("proteins_100g" :> Num(7)))))
        @@ ("gemini_analysis" :> Obj(("grade" :> Str("A")) @@ ("score" :> Num(90)))))

\* nutriments under second synonyms, a null and a text value
BodyMixedNutriments ==
    Obj("original_product" :> Obj("nutriments" :> Obj(
        ("energy_kcal_100g" :> Num(120))
        @@ ("proteins_100g" :> Str("trace")) @@ ("protein_100g" :> Num(7))
        @@ ("fat_100g" :> Null) @@ ("fats_100g" :> Num(3)))))

BodyBadIngredients ==
    Obj("original_product" :> Obj("ingredients_text" :> Num(123)))

BodyBadRecommendations == Obj("recommendations" :> Str("none"))

BodyBadNutriments == Obj("original_product" :> Obj("nutriments" :> Str("n/a")))

\* a body whose product has this ingredients text
BodyIngredients(text) ==
    Obj("original_product" :> Obj(("product_name" :> Str("Snack"))
                                  @@ ("ingredients_text" :> Str(text))))

\* ingredient lists of scanned products
IngredientTexts ==
    {"whole wheat flour", "almond milk", "rice, water", "nutmeg",
     "Milk/Dairy solids, SOYA lecithin"}

IngredientBodies == {BodyIngredients(text) : text \in IngredientTexts}

\* allergens of a profile, in the order the user added them: options of the
\* profile screen and labels typed as custom allergens
AllergenLists ==
    {<<>>, <<"wheat">>, <<"nuts">>, <<"soy">>, <<"Soy">>, <<"Milk/Dairy">>,
     <<"nuts", "soy", "wheat">>, <<"Wheat/Gluten", "Soy", "nuts">>}

ScanBodies ==
    {BodyChocoBar, BodyRootLevel, BodyLowercase, BodyOutOfRange, BodyNegative,
     BodyNoGrades, BodyOtherKeys, BodySameData, BodyMixedNutriments,
     BodyBadIngredients, BodyBadRecommendations, BodyBadNutriments,
     Null, NotJson}

ContribBodyGood ==
    Obj(("status" :> Str("success"))
        @@ ("data" :> Obj(
              ("original_product" :> Obj("product_name" :> Str("Ragi Mix")))
              @@ ("gemini_analysis" :> Obj(("grade" :> Str("B")) @@ ("score" :> Num(0))))
              @@ ("recommendations" :> Arr(<<Obj("analysis" :> Obj("grade" :> Str("A")))>>)))))

ContribBodyLoose ==
    Obj(("status" :> Str("success"))
        @@ ("data" :> Obj("gemini_analysis" :> Obj(("grade" :> Str("z"))
                                                   @@ ("score" :> Str("high"))))))

ContribBodyDetail == Obj("detail" :> Str("Quota exceeded"))

\* the bodies the scan endpoint answers with in the specification of the whole app
AppBodies == {BodyChocoBar, BodyBadRecommendations, NotJson}

ContribBodies == {ContribBodyGood, ContribBodyLoose, ContribBodyDetail, Null, NotJson}

\* the bodies the contribution endpoint answers with in the specification of the whole app
AppContribBodies == {ContribBodyGood, ContribBodyDetail, NotJson}

(***************************************************************************)
(* State.                                                                  *)
(***************************************************************************)
VARIABLES
    user,                        \* AuthContext: uid of user, or NoUser
    loading,                     \* AuthContext: loading
    signOutPc,                   \* position of ProfileScreen.handleSignOut
    currentScreen,               \* AppContent state
    userAllergens,               \* userProfile.allergens
    analysisResult,              \* FoodAnalysis or Null
    pendingContributionBarcode,  \* Str(barcode) or Null
    scanHistory,                 \* in-memory history, most recent first
    localStorage,                \* uid -> list stored under scanHistory_<uid>
    scans,                       \* scan handlers awaiting their response
    nScans,                      \* scan handlers started
    contribs,                    \* contribution submits awaiting their response
    nContribs,                   \* contribution submits started
    step,                        \* ContributionScreen: step
    nutritionImage,              \* ContributionScreen: a nutrition image is chosen
    now,                         \* Date.now()
    lastAlert,                   \* text of the alert() dialog being shown, "" if none
    messages,                    \* ChatView: messages
    isTyping,                    \* ChatView: isTyping
    chatReqs,                    \* ChatView: handleSend calls awaiting their answer
    nChats,                      \* ChatView: handleSend calls started
    chatClock,                   \* milliseconds since the chat was opened
    userConditions,              \* userProfile.conditions
    isSignUp,                    \* AuthScreen: isSignUp
    error,                       \* AuthScreen: error, "" for null
    modeSwitched,                \* AuthScreen: modeSwitched
    formLoading,                 \* AuthScreen: loading
    timers,                      \* AuthScreen: setTimeout callbacks not yet run
    submitPc,                    \* position of AuthScreen.handleSubmit
    submitAlive,                 \* the running handleSubmit belongs to the mounted AuthScreen
    currentUser,                 \* the provider's auth.currentUser, or NoUser
    notify,                      \* auth states the provider has yet to hand to the listener
    thrown                       \* error the last authService.signIn call rejected with

authVars == <<user, loading, signOutPc>>
appVars == <<currentScreen, analysisResult, pendingContributionBarcode, scanHistory>>
contribVars == <<contribs, nContribs, step, nutritionImage>>
chatVars == <<messages, isTyping, chatReqs, nChats, chatClock>>
formVars == <<isSignUp, error, modeSwitched, formLoading, timers, submitPc, submitAlive>>
signInVars == <<currentUser, notify, thrown>>
vars == <<user, loading, signOutPc, currentScreen, userAllergens, analysisResult,
          pendingContributionBarcode, scanHistory, localStorage, scans, nScans,
          contribs, nContribs, step, nutritionImage, now, lastAlert,
          messages, isTyping, chatReqs, nChats, chatClock,
          userConditions, isSignUp, error, modeSwitched, formLoading, timers,
          submitPc, submitAlive, currentUser, notify, thrown>>

\* no error was thrown
NoError == [message |-> "", code |-> ""]

\* no handleSubmit is running
IdleSubmit == [pc |-> "idle", email |-> ""]

\* AuthScreen as it mounts: its useState initial values, and no handler running
FormInit ==
    /\ isSignUp = FALSE
    /\ error = ""
    /\ modeSwitched = FALSE
    /\ formLoading = FALSE
    /\ timers = {}
    /\ submitPc = IdleSubmit
    /\ submitAlive = FALSE

\* the provider has handed every auth state to the listener; nothing was thrown
SignInInit ==
    /\ currentUser = user
    /\ notify = <<>>
    /\ thrown = NoError

\* ChatView as it mounts: useState([]), useState(false)
ChatInit ==
    /\ messages = <<>>
    /\ isTyping = FALSE
    /\ chatReqs = {}
    /\ nChats = 0
    /\ chatClock = 0

\* a history persisted by earlier sessions: one item short of the cap, written
\* at clock readings before this session's
OldAnalysis == ScanFoodAnalysis(BodyChocoBar, <<>>)
OldHistory == [i \in 1..(HISTORY_CAP - 1) |-> RoundTripItem(NewItem(OldAnalysis, 0 - i))]

Init ==
    /\ user = NoUser
    /\ loading = TRUE
    /\ signOutPc = "idle"
    /\ currentScreen = "auth"
    /\ userAllergens = <<>>
    /\ analysisResult = Null
    /\ pendingContributionBarcode = Null
    /\ scanHistory = <<>>
    /\ localStorage = <<>>
    /\ scans = {}
    /\ nScans = 0
    /\ contribs = {}
    /\ nContribs = 0
    /\ step = "intro"
    /\ nutritionImage = FALSE
    /\ now = 0
    /\ lastAlert = ""
    /\ ChatInit
    /\ userConditions = <<>>
    /\ FormInit
    /\ SignInInit

(***************************************************************************)
(* Rendering.  AppContent renders only the loading indicator while loading *)
(* is true; the results and contribution screens also need their data.     *)
(***************************************************************************)
\* alert() blocks the page: while its dialog is open no handler, callback or
\* continuation runs
NoDialog == lastAlert = ""

\* the user can press something: a screen is rendered and no sign-out is running
UserCanAct == NoDialog /\ ~loading /\ signOutPc = "idle"

\* currentScreen === 'results' && analysisResult
ResultsRendered(l, screen, result) == ~l /\ screen = "results" /\ result # Null

\* currentScreen === 'contribution' && pendingContributionBarcode
ContribRendered(l, screen, pending) == ~l /\ screen = "contribution" /\ pending # Null

\* The ContributionScreen instance keeps its local state while it stays
\* mounted.  Once it is unmounted its state is gone, a later instance starts at
\* 'intro', and the state setters of a submit still in flight do nothing.
ContribScreenFollows ==
    IF /\ ContribRendered(loading, currentScreen, pendingContributionBarcode)
       /\ ContribRendered(loading', currentScreen', pendingContributionBarcode')
    THEN UNCHANGED <<contribs, step, nutritionImage>>
    ELSE /\ contribs' = {[c EXCEPT !.live = FALSE] : c \in contribs}
         /\ step' = "intro"
         /\ nutritionImage' = FALSE

(***************************************************************************)
(* Authentication (AuthContext listener, ProfileScreen.handleSignOut) and  *)
(* the routing effect of AppContent, which runs after a render in which    *)
(* isAuthenticated or loading changed.                                     *)
(***************************************************************************)
DepsChanged(u, l) == ((u = NoUser) # (user = NoUser)) \/ l # loading

\* currentScreen after the effect ran with user u and loading l
EffectScreen(u, l, screen) ==
    IF l THEN screen
    ELSE IF u = NoUser THEN "auth"
    ELSE IF screen = "auth" THEN "main"
    ELSE screen

\* scanHistory after the effect ran with user u and loading l
EffectHistory(u, l, screen, history) ==
    IF l THEN history
    ELSE IF u = NoUser THEN <<>>
    ELSE IF screen = "auth" /\ u \in DOMAIN localStorage THEN localStorage[u]
    ELSE history

\* currentScreen === 'auth': AuthScreen is mounted
AuthRendered(l, screen) == ~l /\ screen = "auth"

\* AuthScreen keeps its state while it stays mounted; a new mount starts from
\* the useState initial values, and a handler of the old mount sets nothing
FormFollows ==
    IF AuthRendered(loading, currentScreen) /\ AuthRendered(loading', currentScreen')
    THEN UNCHANGED <<isSignUp, error, modeSwitched, formLoading, timers, submitAlive>>
    ELSE /\ isSignUp' = FALSE
         /\ error' = ""
         /\ modeSwitched' = FALSE
         /\ formLoading' = FALSE
         /\ timers' = {}
         /\ submitAlive' = FALSE

\* the listener's callback: setUser, setLoading(false); then the effect
onAuthStateChanged(u) ==
    /\ user' = u
    /\ loading' = FALSE
    /\ currentScreen' = IF DepsChanged(u, FALSE)
                        THEN EffectScreen(u, FALSE, currentScreen) ELSE currentScreen
    /\ scanHistory' = IF DepsChanged(u, FALSE)
                      THEN EffectHistory(u, FALSE, currentScreen, scanHistory)
                      ELSE scanHistory
    /\ UNCHANGED <<userConditions, chatVars, submitPc, thrown,
                   userAllergens, analysisResult, pendingContributionBarcode,
                   localStorage, scans, nScans, nContribs, now, lastAlert>>
    /\ FormFollows
    /\ ContribScreenFollows

\* the provider changes its auth state to u and calls the listener
AuthStateChanged(u) ==
    /\ NoDialog
    /\ \/ loading /\ signOutPc = "idle" /\ u \in Users \cup {NoUser}
       \/ UserCanAct /\ currentScreen = "auth" /\ user = NoUser /\ u \in Users
       \/ signOutPc = "requested" /\ user # NoUser /\ u = NoUser
    /\ onAuthStateChanged(u)
    /\ signOutPc' = IF signOutPc = "requested" THEN "signedOut" ELSE signOutPc
    /\ currentUser' = u
    /\ UNCHANGED notify

\* ProfileScreen.handleSignOut up to its await: signOutUser sets loading
SignOutRequest ==
    /\ UserCanAct
    /\ currentScreen = "profile"
    /\ loading' = TRUE
    /\ signOutPc' = "requested"
    /\ UNCHANGED <<formVars, signInVars, userConditions, chatVars,
                   user, userAllergens, appVars, localStorage, scans, nScans,
                   nContribs, now, lastAlert>>
    /\ ContribScreenFollows

\* signOut resolved: finally setLoading(false) (the effect runs if loading
\* changed), then onSignOut() = handleSignOut sets the screen
SignOutSettled ==
    /\ NoDialog
    /\ signOutPc = "signedOut" \/ (signOutPc = "requested" /\ user = NoUser)
    /\ loading' = FALSE
    /\ signOutPc' = "idle"
    /\ currentScreen' = "auth"
    /\ scanHistory' = IF DepsChanged(user, FALSE)
                      THEN EffectHistory(user, FALSE, currentScreen, scanHistory)
                      ELSE scanHistory
    /\ UNCHANGED <<formVars, signInVars, userConditions, chatVars,
                   user, userAllergens, analysisResult, pendingContributionBarcode,
                   localStorage, scans, nScans, nContribs, now, lastAlert>>
    /\ ContribScreenFollows

\* signOut rejected: finally setLoading(false), the error is logged
SignOutFailed ==
    /\ NoDialog
    /\ signOutPc = "requested"
    /\ user # NoUser
    /\ loading' = FALSE
    /\ signOutPc' = "idle"
    /\ currentScreen' = EffectScreen(user, FALSE, currentScreen)
    /\ scanHistory' = EffectHistory(user, FALSE, currentScreen, scanHistory)
    /\ UNCHANGED <<formVars, signInVars, userConditions, chatVars,
                   user, userAllergens, analysisResult, pendingContributionBarcode,
                   localStorage, scans, nScans, nContribs, now, lastAlert>>
    /\ ContribScreenFollows

(***************************************************************************)
(* Navigation and profile editing.                                         *)
(***************************************************************************)
\* setCurrentScreen(screen) from a button of the rendered screen
Navigate(screen) ==
    /\ currentScreen' = screen
    /\ UNCHANGED <<formVars, signInVars, userConditions, chatVars,
                   authVars, userAllergens, analysisResult, pendingContributionBarcode,
                   scanHistory, localStorage, scans, nScans, nContribs, now, lastAlert>>
    /\ ContribScreenFollows

\* MainShell: onScanRequest
onScanRequest == UserCanAct /\ currentScreen = "main" /\ Navigate("scanner")

\* MainShell: onProfileRequest
onProfileRequest == UserCanAct /\ currentScreen = "main" /\ Navigate("profile")

\* ResultsScreen: onReScan
onReScan ==
    /\ UserCanAct
    /\ ResultsRendered(loading, currentScreen, analysisResult)
    /\ Navigate("scanner")

\* onBack of the profile, scanner, results and contribution screens
onBack ==
    /\ UserCanAct
    /\ \/ currentScreen \in {"profile", "scanner"}
       \/ ResultsRendered(loading, currentScreen, analysisResult)
       \/ /\ ContribRendered(loading, currentScreen, pendingContributionBarcode)
          /\ step \in {"intro", "success", "error"}
    /\ Navigate("main")

\* MainShell: onHistoryItemClick
handleHistoryItemClick(i) ==
    /\ UserCanAct
    /\ currentScreen = "main"
    /\ i \in 1..Len(scanHistory)
    /\ analysisResult' = HistoryItemAnalysis(scanHistory[i])
    /\ currentScreen' = "results"
    /\ UNCHANGED <<formVars, signInVars, userConditions, chatVars,
                   authVars, userAllergens, pendingContributionBarcode, scanHistory,
                   localStorage, scans, nScans, nContribs, now, lastAlert>>
    /\ ContribScreenFollows

\* [...current, tag] whether or not the tag is in the list
ToggledTagsAppended(current, tag) == Append(current, tag)

\* current.includes(tag) ? current.filter(t => t !== tag) : [...current, tag]
ToggledTags(current, tag) ==
    IF \E i \in 1..Len(current) : current[i] = tag
    THEN SelectSeq(current, LAMBDA t : t # tag)
    ELSE Append(current, tag)

\* ProfileScreen: toggleTag(field, tag)
toggleTag(field, tag) ==
    /\ UserCanAct
    /\ currentScreen = "profile"
    /\ userAllergens' = IF field = "allergens"
                        THEN ToggledTags(userAllergens, tag) ELSE userAllergens
    /\ userConditions' = IF field = "conditions"
                         THEN ToggledTags(userConditions, tag) ELSE userConditions
    /\ UNCHANGED <<formVars, signInVars, chatVars,
                   authVars, appVars, localStorage, scans, nScans, contribVars,
                   now, lastAlert>>

\* the millisecond clock advances
Tick ==
    /\ NoDialog
    /\ now < MaxClock
    /\ now' = now + 1
    /\ UNCHANGED <<formVars, signInVars, userConditions, chatVars,
                   authVars, userAllergens, appVars, localStorage, scans, nScans,
                   contribVars, lastAlert>>

(***************************************************************************)
(* The scan handler (App.tsx, onBarcodeDetected).  The handler and the     *)
(* saveToHistory it calls belong to the render in which the scanner called *)
(* them: they read user and userProfile as they were when the scan began.  *)
(***************************************************************************)
\* saveToHistory(analysis) of a render whose user had this uid: the history
\* and the store after it
SavedHistory(uid, analysis) ==
    IF uid = NoUser THEN scanHistory
    ELSE UpdatedHistory(scanHistory, NewItem(analysis, now))

SavedStorage(uid, analysis) ==
    IF uid = NoUser THEN localStorage
    ELSE (uid :> StoredList(UpdatedHistory(scanHistory, NewItem(analysis, now))))
         @@ localStorage

\* the members of the value AuthProvider hands to useAuth()
AuthContextKeys == {"user", "loading", "signIn", "signUp", "signOut", "isAuthenticated"}

\* authService.getIdToken(): the signed-in user's ID token, null without a user
IdToken(uid) == IF uid = NoUser THEN "null" ELSE "idtoken-" \o uid

\* `Bearer ${getIdToken ? await getIdToken() : ''}`, getIdToken being the
\* member of that name of the useAuth() value
AuthorizationHeader(uid) ==
    "Bearer " \o (IF "getIdToken" \in AuthContextKeys THEN IdToken(uid) ELSE "")

\* a string payload: the handler runs up to `await fetch(...)`
ScanStart(barcode) ==
    /\ UserCanAct
    /\ currentScreen = "scanner"
    /\ nScans < MaxScans
    /\ nScans' = nScans + 1
    /\ scans' = scans \cup {[id |-> nScans + 1, barcode |-> barcode, uid |-> user,
                             allergens |-> userAllergens,
                             authorization |-> AuthorizationHeader(user)]}
    /\ UNCHANGED <<formVars, signInVars, userConditions, chatVars,
                   authVars, userAllergens, appVars, localStorage, contribVars,
                   now, lastAlert>>

\* /\d/
IsDigit(c) == c \in {"0", "1", "2", "3", "4", "5", "6", "7", "8", "9"}

\* /^\d{6,}$/.test(code)
isValidBarcode(code) ==
    /\ Len(code) >= 6
    /\ \A i \in 1..Len(code) : IsDigit(SubSeq(code, i, i))

\* String.prototype.trim, for the blank character
RECURSIVE trim(_)
trim(s) ==
    IF s = "" THEN ""
    ELSE IF SubSeq(s, 1, 1) = " " THEN trim(SubSeq(s, 2, Len(s)))
    ELSE IF SubSeq(s, Len(s), Len(s)) = " " THEN trim(SubSeq(s, 1, Len(s) - 1))
    ELSE s

\* the decoder callback: an invalid code is ignored, a valid one is handed on
onCameraDecode(code) == isValidBarcode(code) /\ ScanStart(code)

\* manual entry: if (manualBarcode.trim()) onBarcodeDetected(manualBarcode.trim())
onManualSubmit(text) == trim(text) # "" /\ ScanStart(trim(text))

\* the test button: onBarcodeDetected('8902579003616')
onTestBarcode == ScanStart(TEST_BARCODE)

\* the payload's barcode not kept: only navigate('contribution')
ScanNotFoundPayloadUnset(barcode) ==
    /\ UserCanAct
    /\ currentScreen = "scanner"
    /\ currentScreen' = "contribution"
    /\ UNCHANGED <<formVars, signInVars, userConditions, chatVars,
                   authVars, userAllergens, analysisResult, scanHistory, localStorage,
                   pendingContributionBarcode, scans, nScans, nContribs, now, lastAlert>>
    /\ ContribScreenFollows

\* an object payload { notFound: true, barcode }: no request is sent
ScanNotFoundPayload(barcode) ==
    /\ UserCanAct
    /\ currentScreen = "scanner"
    /\ pendingContributionBarcode' = Str(barcode)
    /\ currentScreen' = "contribution"
    /\ UNCHANGED <<formVars, signInVars, userConditions, chatVars,
                   authVars, userAllergens, analysisResult, scanHistory, localStorage,
                   scans, nScans, nContribs, now, lastAlert>>
    /\ ContribScreenFollows

\* the 404 test left out: a 404 is handled like every other failure status
IsNotFoundNever(status) == FALSE

\* scanResponse.status === 404
IsNotFound(status) == status = 404

\* the 404 branch: setPendingContributionBarcode(barcode); navigate('contribution')
ScanNotFound(r, status) ==
    /\ NoDialog
    /\ r \in scans
    /\ IsNotFound(status)
    /\ scans' = scans \ {r}
    /\ pendingContributionBarcode' = Str(r.barcode)
    /\ currentScreen' = "contribution"
    /\ UNCHANGED <<formVars, signInVars, userConditions, chatVars,
                   authVars, userAllergens, analysisResult, scanHistory, localStorage,
                   nScans, nContribs, now, lastAlert>>
    /\ ContribScreenFollows

\* catch (error): alert(`Failed to analyze product: ${error.message}`)
ScanAlert(r, message) ==
    /\ NoDialog
    /\ r \in scans
    /\ scans' = scans \ {r}
    /\ lastAlert' = "Failed to analyze product: " \o message
    /\ UNCHANGED <<formVars, signInVars, userConditions, chatVars,
                   authVars, userAllergens, appVars, localStorage, nScans,
                   contribVars, now>>

\* the user closes the dialog; the handler returns
DismissAlert ==
    /\ lastAlert # ""
    /\ lastAlert' = ""
    /\ UNCHANGED <<formVars, signInVars, userConditions, chatVars,
                   authVars, userAllergens, appVars, localStorage, scans, nScans,
                   contribVars, now>>

\* fetch rejected: no response
ScanNetworkError(r) == ScanAlert(r, "Failed to fetch")

\* !scanResponse.ok: throw new Error(`Scan failed: ${scanResponse.status}`)
ScanFailed(r, status) ==
    /\ ~IsNotFound(status)
    /\ ~IsOk(status)
    /\ ScanAlert(r, "Scan failed: " \o ToString(status))

\* a success status whose body is no JSON, or whose normalisation throws
ScanThrew(r, status, body) ==
    /\ ~IsNotFound(status)
    /\ IsOk(status)
    /\ \/ /\ body = NotJson
          /\ ScanAlert(r, "Unexpected token")
       \/ /\ body # NotJson
          /\ ScanThrows(body, r.allergens) # ""
          /\ ScanAlert(r, ScanThrows(body, r.allergens))

\* a success status normalised without error:
\* setAnalysisResult(foodAnalysis); saveToHistory(foodAnalysis); navigate('results')
ScanSucceeded(r, status, body) ==
    /\ NoDialog
    /\ r \in scans
    /\ ~IsNotFound(status)
    /\ IsOk(status)
    /\ body # NotJson
    /\ ScanThrows(body, r.allergens) = ""
    /\ scans' = scans \ {r}
    /\ analysisResult' = ScanFoodAnalysis(body, r.allergens)
    /\ scanHistory' = SavedHistory(r.uid, ScanFoodAnalysis(body, r.allergens))
    /\ localStorage' = SavedStorage(r.uid, ScanFoodAnalysis(body, r.allergens))
    /\ currentScreen' = "results"
    /\ UNCHANGED <<formVars, signInVars, userConditions, chatVars,
                   authVars, userAllergens, pendingContributionBarcode, nScans,
                   nContribs, now, lastAlert>>
    /\ ContribScreenFollows

\* the handler's continuation once fetch resolved with this status and body
\* (the body is read by `await scanResponse.json()`, which no state change of
\* the handler precedes)
ScanResponse(r, status, body) ==
    \/ ScanNotFound(r, status)
    \/ ScanFailed(r, status)
    \/ ScanThrew(r, status, body)
    \/ ScanSucceeded(r, status, body)

(***************************************************************************)
(* The contribution screen (screens/Contribution.tsx) and the App's        *)
(* onContributionSuccess.                                                  *)
(***************************************************************************)
\* setStep(to) from a button shown at step `from`
ContribSetStep(from, to) ==
    /\ UserCanAct
    /\ ContribRendered(loading, currentScreen, pendingContributionBarcode)
    /\ step = from
    /\ step' = to
    /\ UNCHANGED <<formVars, signInVars, userConditions, chatVars,
                   authVars, userAllergens, appVars, localStorage, scans, nScans,
                   contribs, nContribs, nutritionImage, now, lastAlert>>

ContribBegin == ContribSetStep("intro", "upload")
ContribBackStep == ContribSetStep("upload", "intro")
ContribRetry == ContribSetStep("error", "upload")

\* a nutrition label image is captured or picked
ContribPickImage ==
    /\ UserCanAct
    /\ ContribRendered(loading, currentScreen, pendingContributionBarcode)
    /\ step = "upload"
    /\ nutritionImage' = TRUE
    /\ UNCHANGED <<formVars, signInVars, userConditions, chatVars,
                   authVars, userAllergens, appVars, localStorage, scans, nScans,
                   contribs, nContribs, step, now, lastAlert>>

\* handleSubmit up to `await fetch(...)`
ContribSubmit ==
    /\ UserCanAct
    /\ ContribRendered(loading, currentScreen, pendingContributionBarcode)
    /\ step = "upload"
    /\ nutritionImage
    /\ nContribs < MaxContribs
    /\ nContribs' = nContribs + 1
    /\ contribs' = contribs \cup {[id |-> nContribs + 1, uid |-> user, live |-> TRUE]}
    /\ step' = "submitting"
    /\ UNCHANGED <<formVars, signInVars, userConditions, chatVars,
                   authVars, userAllergens, appVars, localStorage, scans, nScans,
                   nutritionImage, now, lastAlert>>

\* how handleSubmit ends for a response: "error" (the catch block), "results"
\* (onContributionSuccess builds an analysis) or "thanks" (it builds none)
ContribOutcome(status, data) ==
    IF data = NotJson THEN "error"
    ELSE IF ~IsOk(status) /\ status # 429 THEN "error"
    ELSE IF ContribThrows(data) # "" THEN "error"
    ELSE IF ContribIsSuccess(data) THEN "results"
    ELSE "thanks"

\* the submit ends at setStep(to) with the App's state untouched
ContribEndsAt(c, to) ==
    /\ NoDialog
    /\ c \in contribs
    /\ contribs' = contribs \ {c}
    /\ step' = IF c.live THEN to ELSE step
    /\ UNCHANGED <<formVars, signInVars, userConditions, chatVars,
                   authVars, userAllergens, appVars, localStorage, scans, nScans,
                   nContribs, nutritionImage, now, lastAlert>>

\* fetch rejected
ContribNetworkError(c) == ContribEndsAt(c, "error")

\* catch (err): setError(...); setStep('error')
ContribErrored(c, status, data) ==
    /\ ContribOutcome(status, data) = "error"
    /\ ContribEndsAt(c, "error")

\* setResult(data); setStep('success'); onContributionSuccess(data) does nothing
ContribThanked(c, status, data) ==
    /\ ContribOutcome(status, data) = "thanks"
    /\ ContribEndsAt(c, "success")

\* onContributionSuccess: setAnalysisResult; saveToHistory; navigate('results')
ContribAccepted(c, status, data) ==
    /\ NoDialog
    /\ c \in contribs
    /\ ContribOutcome(status, data) = "results"
    /\ analysisResult' = ContribFoodAnalysis(data)
    /\ scanHistory' = SavedHistory(c.uid, ContribFoodAnalysis(data))
    /\ localStorage' = SavedStorage(c.uid, ContribFoodAnalysis(data))
    /\ currentScreen' = "results"
    /\ contribs' = {[x EXCEPT !.live = FALSE] : x \in contribs \ {c}}
    /\ step' = "intro"
    /\ nutritionImage' = FALSE
    /\ UNCHANGED <<formVars, signInVars, userConditions, chatVars,
                   authVars, userAllergens, pendingContributionBarcode, scans, nScans,
                   nContribs, now, lastAlert>>

(***************************************************************************)
(* The chat view (views/ChatView.tsx): handleSend and callVitalisAPI.     *)
(***************************************************************************)
\* texts of the input field and the suggestions
ChatTexts == {"Is high sodium bad for PCOS?", "  "}

\* statuses of POST /chat
ChatStatuses == {200, 500}

\* bodies of a chat answer: a reply, no reply field, JSON null, not JSON
ChatBodies == {Obj("response" :> Str("Sodium raises blood pressure.")), EmptyObj, Null, NotJson}

TIMED_OUT == "The request timed out. Please try again."
CANNOT_CONNECT ==
    "I'm sorry, I'm having trouble connecting right now. Please try again later."
DIFFICULTIES ==
    "I'm experiencing some technical difficulties. Please try again in a moment."

nonChatVars == <<user, loading, signOutPc, currentScreen, userAllergens, analysisResult,
                 pendingContributionBarcode, scanHistory, localStorage, scans, nScans,
                 contribs, nContribs, step, nutritionImage, now, lastAlert,
                 userConditions, formVars, signInVars>>

\* the chat tab of the main screen is shown
ChatRendered == UserCanAct /\ currentScreen = "main"

\* handleSend up to `await fetch(...)`: the user message is appended, the
\* abort timer is set, the request carries the messages of the current render
handleSend(text) ==
    /\ ChatRendered
    /\ trim(text) # ""
    /\ nChats < MaxChats
    /\ nChats' = nChats + 1
    /\ messages' = Append(messages, [id |-> ToString(chatClock), role |-> "user",
                                     content |-> Str(text)])
    /\ isTyping' = TRUE
    /\ chatReqs' = chatReqs \cup
          {[id |-> nChats + 1, started |-> chatClock, phase |-> "fetch",
            sent |-> [i \in 1..(Len(messages) + 1) |->
                        IF i <= Len(messages) THEN messages[i].content ELSE Str(text)],
            allergens |-> userAllergens]}
    /\ UNCHANGED <<chatClock, nonChatVars>>

\* the rest of handleSend: the assistant message is appended; finally setIsTyping(false)
ChatReply(r, content) ==
    /\ r \in chatReqs
    /\ chatReqs' = chatReqs \ {r}
    /\ messages' = Append(messages, [id |-> ToString(chatClock + 1), role |-> "assistant",
                                     content |-> content])
    /\ isTyping' = FALSE
    /\ UNCHANGED <<nChats, chatClock, nonChatVars>>

\* the abort timer is pending until fetch settles: clearTimeout(timeoutId)
\* follows `await fetch(...)`
TimerPending(r) == r.phase = "fetch"

\* the timer fires: controller.abort() rejects fetch with an AbortError
ChatTimedOut(r) ==
    /\ r \in chatReqs
    /\ TimerPending(r)
    /\ chatClock >= r.started + CHAT_TIMEOUT
    /\ ChatReply(r, Str(TIMED_OUT))

\* fetch rejects for another reason
ChatNetworkError(r) ==
    /\ r \in chatReqs
    /\ r.phase = "fetch"
    /\ ChatReply(r, Str(DIFFICULTIES))

\* fetch resolves with a status that is not ok: clearTimeout, the apology
ChatRefused(r, status) ==
    /\ r \in chatReqs
    /\ r.phase = "fetch"
    /\ ~IsOk(status)
    /\ ChatReply(r, Str(CANNOT_CONNECT))

\* fetch resolves with an ok status: clearTimeout(timeoutId), then
\* `await response.json()`
ChatHeadersOk(r, status) ==
    /\ r \in chatReqs
    /\ r.phase = "fetch"
    /\ IsOk(status)
    /\ chatReqs' = (chatReqs \ {r}) \cup {[r EXCEPT !.phase = "body"]}
    /\ UNCHANGED <<messages, isTyping, nChats, chatClock, nonChatVars>>

\* response.json() settles: return data.response; a body that is not JSON and
\* `data.response` of null are caught by callVitalisAPI
ChatBodyRead(r, data) ==
    /\ r \in chatReqs
    /\ r.phase = "body"
    /\ ChatReply(r, IF data = NotJson \/ IsNullish(data) THEN Str(DIFFICULTIES)
                    ELSE Get(data, "response"))

\* time passes, up to the next reading or the next deadline of a pending
\* timer; a timer that is due fires before time passes on
ChatTick ==
    /\ chatClock < MaxChatTime
    /\ \A r \in chatReqs : TimerPending(r) => chatClock < r.started + CHAT_TIMEOUT
    /\ LET deadlines == {r.started + CHAT_TIMEOUT : r \in {x \in chatReqs : TimerPending(x)}}
           next == chatClock + ChatStep
       IN chatClock' = IF \E d \in deadlines : d < next
                       THEN CHOOSE d \in deadlines : \A e \in deadlines : d <= e
                       ELSE next
    /\ UNCHANGED <<messages, isTyping, chatReqs, nChats, nonChatVars>>

(***************************************************************************)
(* The auth screen (AuthScreen.handleSubmit), the provider it calls, and   *)
(* authService.signIn.  The provider signs a user in when a sign-in or an  *)
(* account creation resolves and hands each auth state to the listener of  *)
(* AuthContext in its own task, so the listener and the rest of the submit *)
(* handler run in either order.                                            *)
(***************************************************************************)
\* accounts whose e-mail address is verified
Verified == {"u1"}

Emails == {"a@b.c", "a@b"}
Passwords == {"secret", "12345"}
FullNames == {"Al", " "}

IC == "auth/invalid-credential"
ErrorCodes == {"auth/user-not-found", "auth/wrong-password", IC, "auth/invalid-email",
               "auth/too-many-requests", "auth/email-already-in-use",
               "auth/network-request-failed"}

\* what the provider rejects with: an error with a code, or one without
Rejections ==
    {[code |-> c, message |-> "Firebase: Error (" \o c \o ")."] : c \in ErrorCodes}
        \cup {[code |-> "", message |-> ""]}

INVALID_EMAIL == "Please enter a valid email address."
SHORT_PASSWORD == "Password must be at least 6 characters long."
NO_NAME == "Please enter your full name."
ACCOUNT_CREATED ==
    "Account created! Please check your email and click the verification link before signing in."
VERIFY_EMAIL ==
    "Please verify your email address before signing in. Check your email for the verification link."
INCORRECT_PASSWORD == "Incorrect password. Please enter the correct password."
TOO_MANY_ATTEMPTS == "Too many failed attempts. Please try again later."
ALREADY_EXISTS == "An account already exists with this email. Please sign in instead."
AUTH_FAILED == "Authentication failed. Please try again."
NoAccountFound(email) == "No account found for " \o email \o ". You can Create Account here."

\* /^[^\s@]+@[^\s@]+\.[^\s@]+$/.test(s), for the blank as whitespace
emailRegexTest(s) ==
    \E i, j \in 1..Len(s) :
        /\ i > 1 /\ j > i + 1 /\ j < Len(s)
        /\ SubSeq(s, i, i) = "@"
        /\ SubSeq(s, j, j) = "."
        /\ \A k \in 1..Len(s) : k # i => SubSeq(s, k, k) \notin {"@", " "}

\* AuthScreen is shown and can be pressed
FormRendered == UserCanAct /\ currentScreen = "auth"

\* everything the auth screen and the provider leave alone
notFormVars == <<user, loading, signOutPc, currentScreen, userAllergens, analysisResult,
                 pendingContributionBarcode, scanHistory, localStorage, scans, nScans,
                 contribs, nContribs, step, nutritionImage, now, lastAlert,
                 userConditions, chatVars>>

\* the link under the button: setIsSignUp(!isSignUp); setError(null); setModeSwitched(false)
ToggleMode ==
    /\ FormRendered
    /\ isSignUp' = ~isSignUp
    /\ error' = ""
    /\ modeSwitched' = FALSE
    /\ UNCHANGED <<formLoading, timers, submitPc, submitAlive, signInVars, notFormVars>>

\* handleSubmit up to its first await; the button is disabled while loading
handleSubmit(email, password, fullName) ==
    /\ FormRendered
    /\ ~formLoading
    /\ submitPc.pc = "idle"
    /\ IF ~emailRegexTest(email)
       THEN error' = INVALID_EMAIL /\ UNCHANGED <<formLoading, submitPc, submitAlive>>
       ELSE IF Len(password) < 6
       THEN error' = SHORT_PASSWORD /\ UNCHANGED <<formLoading, submitPc, submitAlive>>
       ELSE IF isSignUp /\ trim(fullName) = ""
       THEN error' = NO_NAME /\ UNCHANGED <<formLoading, submitPc, submitAlive>>
       ELSE /\ error' = ""
            /\ formLoading' = TRUE
            /\ submitPc' = [pc |-> IF isSignUp THEN "create" ELSE "signIn", email |-> email]
            /\ submitAlive' = TRUE
    /\ UNCHANGED <<isSignUp, modeSwitched, timers, signInVars, notFormVars>>

\* the provider makes u its current user and owes the listener a call
SignedIn(u) ==
    /\ Len(notify) < MaxNotify
    /\ currentUser' = u
    /\ notify' = Append(notify, u)

\* createUserWithEmailAndPassword resolves: the new account is signed in
CreateResolved(u) ==
    /\ submitPc.pc = "create"
    /\ u \notin Verified
    /\ SignedIn(u)
    /\ submitPc' = [submitPc EXCEPT !.pc = "sendVerification"]
    /\ UNCHANGED <<isSignUp, error, modeSwitched, formLoading, timers, submitAlive, thrown,
                   notFormVars>>

\* sendEmailVerification resolves: the message, its timer, return; finally
VerificationSent ==
    /\ submitPc.pc = "sendVerification"
    /\ IF submitAlive
       THEN /\ error' = ACCOUNT_CREATED
            /\ timers' = timers \cup {"clearError"}
            /\ formLoading' = FALSE
       ELSE UNCHANGED <<error, timers, formLoading>>
    /\ submitPc' = IdleSubmit
    /\ UNCHANGED <<isSignUp, modeSwitched, submitAlive, signInVars, notFormVars>>

\* signInWithEmailAndPassword resolves: the user is signed in; an unverified
\* one gets the message and auth.signOut() is called
SignInResolved(u) ==
    /\ submitPc.pc = "signIn"
    /\ SignedIn(u)
    /\ IF u \in Verified
       THEN submitPc' = [submitPc EXCEPT !.pc = "getIdToken"] /\ UNCHANGED error
       ELSE /\ submitPc' = [submitPc EXCEPT !.pc = "signOut"]
            /\ error' = IF submitAlive THEN VERIFY_EMAIL ELSE error
    /\ UNCHANGED <<isSignUp, modeSwitched, formLoading, timers, submitAlive, thrown,
                   notFormVars>>

\* auth.signOut() resolves: nobody is signed in; return; finally
SignedOut ==
    /\ submitPc.pc = "signOut"
    /\ Len(notify) < MaxNotify
    /\ currentUser' = NoUser
    /\ notify' = Append(notify, NoUser)
    /\ formLoading' = IF submitAlive THEN FALSE ELSE formLoading
    /\ submitPc' = IdleSubmit
    /\ UNCHANGED <<isSignUp, error, modeSwitched, timers, submitAlive, thrown, notFormVars>>

\* getIdToken resolves; finally
TokenObtained ==
    /\ submitPc.pc = "getIdToken"
    /\ formLoading' = IF submitAlive THEN FALSE ELSE formLoading
    /\ submitPc' = IdleSubmit
    /\ UNCHANGED <<isSignUp, error, modeSwitched, timers, submitAlive, signInVars,
                   notFormVars>>

\* the catch block of handleSubmit: what it sets for the error it caught
CaughtIsSignUp(rej) ==
    IF rej.code = "auth/user-not-found" THEN TRUE
    ELSE IF rej.code = "auth/email-already-in-use" THEN FALSE
    ELSE isSignUp

CaughtSwitches(rej) == rej.code \in {"auth/user-not-found", "auth/email-already-in-use"}

CaughtError(rej, email) ==
    IF rej.code = "auth/user-not-found" THEN NoAccountFound(email)
    ELSE IF rej.code = "auth/wrong-password" THEN INCORRECT_PASSWORD
    ELSE IF rej.code = IC THEN INCORRECT_PASSWORD
    ELSE IF rej.code = "auth/invalid-email" THEN INVALID_EMAIL
    ELSE IF rej.code = "auth/too-many-requests" THEN TOO_MANY_ATTEMPTS
    ELSE IF rej.code = "auth/email-already-in-use" THEN ALREADY_EXISTS
    ELSE IF rej.message # "" THEN rej.message
    ELSE AUTH_FAILED

\* an awaited provider call of handleSubmit rejects: catch; finally
SubmitRejected(rej) ==
    /\ submitPc.pc # "idle"
    /\ IF submitAlive
       THEN /\ isSignUp' = CaughtIsSignUp(rej)
            /\ modeSwitched' = (CaughtSwitches(rej) \/ modeSwitched)
            /\ error' = CaughtError(rej, submitPc.email)
            /\ timers' = IF CaughtSwitches(rej)
                         THEN timers \cup {"clearErrorAndMode"} ELSE timers
            /\ formLoading' = FALSE
       ELSE UNCHANGED <<isSignUp, modeSwitched, error, timers, formLoading>>
    /\ submitPc' = IdleSubmit
    /\ UNCHANGED <<submitAlive, signInVars, notFormVars>>

\* a setTimeout callback of the mounted AuthScreen runs; callbacks of one kind
\* that are pending together are kept as one
TimerFires(t) ==
    /\ t \in timers
    /\ error' = ""
    /\ modeSwitched' = IF t = "clearErrorAndMode" THEN FALSE ELSE modeSwitched
    /\ timers' = timers \ {t}
    /\ UNCHANGED <<isSignUp, formLoading, submitPc, submitAlive, signInVars, notFormVars>>

\* the provider calls the listener with the oldest auth state it owes
ListenerNotified ==
    /\ NoDialog
    /\ notify # <<>>
    /\ onAuthStateChanged(Head(notify))
    /\ notify' = Tail(notify)
    /\ UNCHANGED <<signOutPc, currentUser>>

\* AuthService.getErrorMessage
getErrorMessage(errorCode) ==
    IF errorCode = "auth/invalid-email" THEN "Invalid email address"
    ELSE IF errorCode = "auth/user-disabled" THEN "This account has been disabled"
    ELSE IF errorCode = "auth/user-not-found" THEN "No account found with this email"
    ELSE IF errorCode = "auth/wrong-password" THEN "Incorrect password"
    ELSE IF errorCode = IC THEN "Invalid credentials - user not found"
    ELSE IF errorCode = "auth/email-already-in-use"
    THEN "An account with this email already exists"
    ELSE IF errorCode = "auth/weak-password" THEN "Password should be at least 6 characters"
    ELSE IF errorCode = "auth/network-request-failed"
    THEN "Network error. Please check your connection"
    ELSE IF errorCode = "auth/too-many-requests"
    THEN "Too many failed attempts. Please try again later"
    ELSE "Authentication failed. Please try again"

\* authService.signIn called while nobody is signed in, the provider rejecting:
\* the error thrown carries getErrorMessage's text and the provider's code
signInRejected(rej) ==
    /\ currentUser = NoUser
    /\ thrown' = [message |-> getErrorMessage(rej.code), code |-> rej.code]
    /\ UNCHANGED <<formVars, currentUser, notify, notFormVars>>

\* authService.signIn resolving: the user is signed in and the tokens returned
signInReturned(u) ==
    /\ currentUser = NoUser
    /\ SignedIn(u)
    /\ thrown' = NoError
    /\ UNCHANGED <<formVars, notFormVars>>

(***************************************************************************)
(* The profile lists (ProfileScreen, OnboardingScreen).                    *)
(***************************************************************************)
\* labels of the option buttons, and texts typed into the "Others" inputs
ProfileAllergens == {"Soy", "Peanuts"}
ProfileConditions == {"PCOS / PCOD"}
OnboardingAllergens == {"Peanuts", "Gluten"}
OnboardingConditions == {"PCOS"}
CustomTexts == {" Soy ", "PCOS", "  "}

\* ProfileScreen: handleAddCustomAllergen / handleAddCustomCondition
handleAddCustomTag(field, text) ==
    /\ trim(text) # ""
    /\ toggleTag(field, trim(text))

\* OnboardingScreen: toggleItem(listName, label), a functional update of the profile
toggleItem(listName, label) ==
    /\ UserCanAct
    /\ currentScreen = "onboarding"
    /\ userAllergens' = IF listName = "allergens"
                        THEN ToggledTags(userAllergens, label) ELSE userAllergens
    /\ userConditions' = IF listName = "conditions"
                         THEN ToggledTags(userConditions, label) ELSE userConditions
    /\ UNCHANGED <<formVars, signInVars, chatVars,
                   authVars, appVars, localStorage, scans, nScans, contribVars,
                   now, lastAlert>>

\* OnboardingScreen: handleAddCustom(listName)
handleAddCustom(listName, text) ==
    /\ trim(text) # ""
    /\ toggleItem(listName, trim(text))

\* OnboardingScreen: onComplete, navigate('main')
onComplete == UserCanAct /\ currentScreen = "onboarding" /\ Navigate("main")

(***************************************************************************)
(* The specifications.                                                     *)
(***************************************************************************)
Authentication(users) ==
    \/ \E u \in users \cup {NoUser} : AuthStateChanged(u)
    \/ SignOutRequest
    \/ SignOutSettled
    \/ SignOutFailed

Navigation ==
    \/ onScanRequest
    \/ onProfileRequest
    \/ onReScan
    \/ onBack
    \/ \E i \in 1..HISTORY_CAP : handleHistoryItemClick(i)

ScanHandler(barcodes, bodies) ==
    \/ \E b \in barcodes : onCameraDecode(b)
    \/ \E b \in barcodes : onManualSubmit(b)
    \/ onTestBarcode
    \/ \E b \in barcodes : trim(b) # "" /\ ScanNotFoundPayload(trim(b))
    \/ \E r \in scans : ScanNetworkError(r)
    \/ \E r \in scans, st \in Statuses, body \in bodies : ScanResponse(r, st, body)
    \/ DismissAlert

Contribution(bodies) ==
    \/ ContribBegin
    \/ ContribBackStep
    \/ ContribRetry
    \/ ContribPickImage
    \/ ContribSubmit
    \/ \E c \in contribs : ContribNetworkError(c)
    \/ \E c \in contribs, st \in ContribStatuses, d \in bodies : ContribErrored(c, st, d)
    \/ \E c \in contribs, st \in ContribStatuses, d \in bodies : ContribThanked(c, st, d)
    \/ \E c \in contribs, st \in ContribStatuses, d \in bodies : ContribAccepted(c, st, d)

\* The whole app: authentication, navigation, scans and contributions in
\* flight, for two users and a well-formed, a malformed and a non-JSON body.
Next ==
    \/ Authentication(Users)
    \/ Navigation
    \/ Tick
    \/ ScanHandler(Barcodes, AppBodies) /\ nScans' <= MaxAppScans
    \/ Contribution(AppContribBodies)

Spec == Init /\ [][Next]_vars

\* The scan handler's normalisation: one user edits the profile's allergens
\* and scans, and the endpoint answers with every body of ScanBodies.
NextScan ==
    \/ \E u \in {"u1", NoUser} : AuthStateChanged(u)
    \/ onScanRequest
    \/ onProfileRequest
    \/ onReScan
    \/ onBack
    \/ \E tag \in AllergenTags : toggleTag("allergens", tag)
    \/ ScanHandler({TEST_BARCODE}, ScanBodies) /\ nScans' <= MaxAppScans

SpecScan == Init /\ [][NextScan]_vars

\* The history cap: a user whose store holds a history one item short of the
\* cap signs in and scans.
InitCap ==
    /\ user = NoUser
    /\ loading = TRUE
    /\ signOutPc = "idle"
    /\ currentScreen = "auth"
    /\ userAllergens = <<>>
    /\ analysisResult = Null
    /\ pendingContributionBarcode = Null
    /\ scanHistory = <<>>
    /\ localStorage = ("u1" :> OldHistory)
    /\ scans = {}
    /\ nScans = 0
    /\ contribs = {}
    /\ nContribs = 0
    /\ step = "intro"
    /\ nutritionImage = FALSE
    /\ now = 0
    /\ lastAlert = ""
    /\ ChatInit
    /\ userConditions = <<>>
    /\ FormInit
    /\ SignInInit

NextCap ==
    \/ \E u \in {"u1", NoUser} : AuthStateChanged(u)
    \/ SignOutRequest
    \/ SignOutSettled
    \/ SignOutFailed
    \/ Navigation
    \/ Tick
    \/ onTestBarcode
    \/ \E r \in scans, body \in {BodyChocoBar, BodyRootLevel} : ScanSucceeded(r, 200, body)

SpecCap == InitCap /\ [][NextCap]_vars

\* Allergen detection: a signed-in user whose profile lists some allergens
\* is on the scanner and scans products with various ingredient lists.
InitAllergen ==
    /\ user = "u1"
    /\ loading = FALSE
    /\ signOutPc = "idle"
    /\ currentScreen = "scanner"
    /\ userAllergens \in AllergenLists
    /\ analysisResult = Null
    /\ pendingContributionBarcode = Null
    /\ scanHistory = <<>>
    /\ localStorage = <<>>
    /\ scans = {}
    /\ nScans = 0
    /\ contribs = {}
    /\ nContribs = 0
    /\ step = "intro"
    /\ nutritionImage = FALSE
    /\ now = 0
    /\ lastAlert = ""
    /\ ChatInit
    /\ userConditions = <<>>
    /\ FormInit
    /\ SignInInit

NextAllergen ==
    \/ onScanRequest
    \/ onReScan
    \/ onBack
    \/ onTestBarcode
    \/ \E r \in scans, body \in IngredientBodies : ScanSucceeded(r, 200, body)

SpecAllergen == InitAllergen /\ [][NextAllergen]_vars

\* Racing scans: one user signs in and out, and up to three scans are
\* answered with a success status in any order.
NextRace ==
    \/ \E u \in {"u1", NoUser} : AuthStateChanged(u)
    \/ SignOutRequest
    \/ SignOutSettled
    \/ SignOutFailed
    \/ Navigation
    \/ onTestBarcode
    \/ \E r \in scans, body \in {BodyChocoBar, BodySameData} : ScanSucceeded(r, 200, body)

SpecRace == Init /\ [][NextRace]_vars

\* The auth screen: nobody is signed in when the app starts; the form is
\* submitted in both modes, the provider answers, the listener is called.
NextAuth ==
    \/ AuthStateChanged(NoUser)
    \/ ToggleMode
    \/ \E email \in Emails, password \in Passwords, fullName \in FullNames :
          handleSubmit(email, password, fullName)
    \/ \E u \in Users : CreateResolved(u)
    \/ VerificationSent
    \/ \E u \in Users : SignInResolved(u)
    \/ SignedOut
    \/ TokenObtained
    \/ \E rej \in Rejections : SubmitRejected(rej)
    \/ \E t \in timers : TimerFires(t)
    \/ ListenerNotified
    \/ \E rej \in Rejections : signInRejected(rej)
    \/ \E u \in Users : signInReturned(u)

SpecAuth == Init /\ [][NextAuth]_vars

\* The profile lists: a signed-in user with an empty profile on the profile
\* screen, or on the onboarding screen, which App.tsx renders for
\* currentScreen = 'onboarding'.
InitProfile ==
    /\ user = "u1"
    /\ loading = FALSE
    /\ signOutPc = "idle"
    /\ currentScreen \in {"profile", "onboarding"}
    /\ userAllergens = <<>>
    /\ analysisResult = Null
    /\ pendingContributionBarcode = Null
    /\ scanHistory = <<>>
    /\ localStorage = <<>>
    /\ scans = {}
    /\ nScans = 0
    /\ contribs = {}
    /\ nContribs = 0
    /\ step = "intro"
    /\ nutritionImage = FALSE
    /\ now = 0
    /\ lastAlert = ""
    /\ ChatInit
    /\ userConditions = <<>>
    /\ FormInit
    /\ SignInInit

NextProfile ==
    \/ \E tag \in ProfileAllergens : toggleTag("allergens", tag)
    \/ \E tag \in ProfileConditions : toggleTag("conditions", tag)
    \/ \E field \in {"allergens", "conditions"}, text \in CustomTexts :
          handleAddCustomTag(field, text)
    \/ \E label \in OnboardingAllergens : toggleItem("allergens", label)
    \/ \E label \in OnboardingConditions : toggleItem("conditions", label)
    \/ \E listName \in {"allergens", "conditions"}, text \in CustomTexts :
          handleAddCustom(listName, text)
    \/ onComplete
    \/ onProfileRequest
    \/ onBack

SpecProfile == InitProfile /\ [][NextProfile]_vars

\* The chat: a signed-in user on the main screen sends messages while time
\* passes and the chat endpoint answers, fails or stays silent.
InitChat ==
    /\ user = "u1"
    /\ loading = FALSE
    /\ signOutPc = "idle"
    /\ currentScreen = "main"
    /\ userAllergens = <<>>
    /\ analysisResult = Null
    /\ pendingContributionBarcode = Null
    /\ scanHistory = <<>>
    /\ localStorage = <<>>
    /\ scans = {}
    /\ nScans = 0
    /\ contribs = {}
    /\ nContribs = 0
    /\ step = "intro"
    /\ nutritionImage = FALSE
    /\ now = 0
    /\ lastAlert = ""
    /\ ChatInit
    /\ userConditions = <<>>
    /\ FormInit
    /\ SignInInit

NextChat ==
    \/ \E text \in ChatTexts : handleSend(text)
    \/ \E r \in chatReqs : ChatTimedOut(r)
    \/ \E r \in chatReqs : ChatNetworkError(r)
    \/ \E r \in chatReqs, st \in ChatStatuses : ChatRefused(r, st)
    \/ \E r \in chatReqs, st \in ChatStatuses : ChatHeadersOk(r, st)
    \/ \E r \in chatReqs, data \in ChatBodies : ChatBodyRead(r, data)
    \/ ChatTick

SpecChat == InitChat /\ [][NextChat]_vars

(***************************************************************************)
(* Properties.                                                             *)
(***************************************************************************)
GradeValues == {Str(g) : g \in GRADES}

\* every field of a FoodAnalysis is defined
AllFieldsDefined(fa) ==
    /\ \A f \in {"productName", "brand", "grade", "score", "reason", "image_url",
                 "gemini_analysis", "user_context"} : fa[f] # Undefined
    /\ \A i \in 1..Len(fa.ingredients) : fa.ingredients[i] # Undefined
    /\ \A m \in {"calories", "protein", "carbs", "fat"} : fa.macros[m] # Undefined
    /\ \A i \in 1..Len(fa.alternatives) :
         \A f \in {"name", "brand", "grade", "score", "reasoning", "image_url"} :
            fa.alternatives[i][f] # Undefined

\* C1: (SpecScan) the FoodAnalysis a scan builds has a grade in {A,B,C,D,F}:
\* the grade of the payload's analysis when that is exactly one of the five
\* strings, 'C' for every other value (absent, null, lowercase, number).
C1_GradeValid ==
    analysisResult # Null =>
        LET raw == Get(analysisResult.gemini_analysis, "grade")
        IN /\ analysisResult.grade \in GradeValues
           /\ raw \in GradeValues => analysisResult.grade = raw
           /\ raw \notin GradeValues => analysisResult.grade = Str("C")

\* C1 witness: a scan whose payload grade was the lowercase "a" was normalised to 'C'
C1_Witness ==
    /\ analysisResult # Null
    /\ Get(analysisResult.gemini_analysis, "grade") = Str("a")
    /\ analysisResult.grade = Str("C")
    /\ currentScreen = "results"

\* C2: (Spec) a 404 response, whatever its body, sets the pending contribution
\* barcode to the scanned barcode and shows the contribution screen, and leaves
\* analysisResult and the history (in memory and persisted) unchanged.
C2_NotFoundRoutes ==
    [][\A r \in scans, body \in AppBodies :
          ScanResponse(r, 404, body) =>
             /\ pendingContributionBarcode' = Str(r.barcode)
             /\ currentScreen' = "contribution"
             /\ analysisResult' = analysisResult
             /\ scanHistory' = scanHistory
             /\ localStorage' = localStorage
             /\ lastAlert' = ""]_vars

\* C2 witness: the only scan was answered and its barcode "abc" is pending on
\* the contribution screen, with no analysis and no history
C2_Witness ==
    /\ nScans = 1
    /\ scans = {}
    /\ currentScreen = "contribution"
    /\ pendingContributionBarcode = Str("abc")
    /\ analysisResult = Null
    /\ scanHistory = <<>>
    /\ localStorage = <<>>

\* C3: (Spec) a response whose status is neither a success nor 404 makes the
\* handler show a failure message and leaves currentScreen, analysisResult,
\* pendingContributionBarcode and the history (in memory and persisted) unchanged.
C3_FailureKeepsState ==
    [][\A r \in scans, st \in Statuses, body \in AppBodies :
          (st # 404 /\ st \notin 200..299 /\ ScanResponse(r, st, body)) =>
             /\ lastAlert' = "Failed to analyze product: Scan failed: " \o ToString(st)
             /\ UNCHANGED <<currentScreen, analysisResult, pendingContributionBarcode,
                            scanHistory, localStorage>>]_vars

\* C3 witness: the failure message of a 500 response is shown over the scanner
C3_Witness ==
    /\ lastAlert = "Failed to analyze product: Scan failed: 500"
    /\ currentScreen = "scanner"

\* C4: (SpecScan) a success response with a JSON body, whatever fields are
\* missing, null or wrongly typed, raises no error: it yields a FoodAnalysis
\* with every field defined and the results screen.
C4_NeverThrows ==
    [][\A r \in scans, st \in Statuses, body \in ScanBodies \ {NotJson} :
          (st \in 200..299 /\ ScanResponse(r, st, body)) =>
             /\ lastAlert' = ""
             /\ currentScreen' = "results"
             /\ analysisResult' # Null
             /\ AllFieldsDefined(analysisResult')]_vars

\* C5: (SpecScan) the score of the FoodAnalysis a scan builds is a number
\* within [0,100].
C5_ScoreInRange ==
    analysisResult # Null =>
        /\ IsNumber(analysisResult.score)
        /\ analysisResult.score.n \in 0..100

\* the clock reading an item id was made from
IdTime(id) == CHOOSE t \in (0 - HISTORY_CAP)..(MaxClock + 1) : ToString(t) = id

\* no item of the list is older than the item after it
MostRecentFirst(list) ==
    \A i \in 1..(Len(list) - 1) : IdTime(list[i].id) >= IdTime(list[i + 1].id)

\* C6: (SpecCap) the in-memory history never holds more than 50 items and is
\* ordered most-recent-first; an append puts the new item first, and on a full
\* 50-item list it removes exactly the oldest (last) item and keeps the other
\* 49 in order.
C6_HistoryCapped ==
    [][/\ Len(scanHistory') <= HISTORY_CAP
       /\ MostRecentFirst(scanHistory')
       /\ \A r \in scans, body \in ScanBodies :
            (ScanSucceeded(r, 200, body) /\ r.uid # NoUser) =>
               LET new == NewItem(ScanFoodAnalysis(body, r.allergens), now)
               IN /\ scanHistory'[1] = new
                  /\ IF Len(scanHistory) = HISTORY_CAP
                     THEN scanHistory' = <<new>> \o SubSeq(scanHistory, 1, HISTORY_CAP - 1)
                     ELSE scanHistory' = <<new>> \o scanHistory]_vars

\* C6 witness: a full list after two appends to a 49-item history: the oldest
\* of the 49 is gone, the second oldest is last
C6_Witness ==
    /\ Len(scanHistory) = HISTORY_CAP
    /\ scanHistory[HISTORY_CAP].id = ToString(0 - (HISTORY_CAP - 2))
    /\ IdTime(scanHistory[1].id) >= 0
    /\ IdTime(scanHistory[2].id) >= 0

\* C7: (Spec) every scan answered with a success status and normalised puts
\* one new HistoryItem at the head of the in-memory history, writes the list to
\* the store under the user's id, so that the persisted list equals the
\* in-memory list, and shows the results screen, in every state in which the
\* scan completes.
C7_ScanAlwaysAppends ==
    [][\A r \in scans, st \in Statuses, body \in AppBodies :
          ScanSucceeded(r, st, body) =>
             LET new == NewItem(ScanFoodAnalysis(body, r.allergens), now)
             IN /\ Len(scanHistory') > 0
                /\ scanHistory'[1] = new
                /\ Len(scanHistory') = IF Len(scanHistory) = HISTORY_CAP
                                       THEN HISTORY_CAP ELSE Len(scanHistory) + 1
                /\ r.uid \in DOMAIN localStorage'
                /\ localStorage'[r.uid] = scanHistory'
                /\ currentScreen' = "results"]_vars

\* C8: (Spec) whenever the authentication state is resolved and no user is
\* authenticated, the in-memory history is empty.
C8_SignedOutHistoryEmpty ==
    (~loading /\ user = NoUser) => scanHistory = <<>>

\* the list `new` keeps every item of `old` that the cap did not evict: `new`
\* is some new items followed by the items of `old` in order, all of them
\* unless `new` is full
KeepsItems(old, new) ==
    \E k \in 0..Len(new) :
        /\ Len(new) - k <= Len(old)
        /\ SubSeq(new, k + 1, Len(new)) = SubSeq(old, 1, Len(new) - k)
        /\ Len(new) - k = Len(old) \/ Len(new) = HISTORY_CAP

\* C9: (Spec) no step replaces the list persisted under a user's id by one
\* that lacks items the cap did not evict, and a sign-in of a user with a
\* persisted list makes the in-memory history equal to it.
C9_PersistedSurvives ==
    [][/\ \A u \in DOMAIN localStorage :
            /\ u \in DOMAIN localStorage'
            /\ KeepsItems(localStorage[u], localStorage'[u])
       /\ \A u \in DOMAIN localStorage :
            (user = NoUser /\ user' = u) => scanHistory' = localStorage[u]]_vars

\* C10: (Spec) a handled response ends in exactly one of three outcomes: the
\* results screen with a new history item for a success status, the
\* contribution screen with the barcode pending for 404, an error message with
\* the screen unchanged for any other failure; an error sends no further request.
C10_ThreeOutcomes ==
    [][/\ \A r \in scans, st \in Statuses, body \in AppBodies \ {NotJson} :
            ScanResponse(r, st, body) =>
               LET results == /\ currentScreen' = "results"
                              /\ analysisResult' # Null
                              /\ Len(scanHistory') > 0
                              /\ scanHistory'[1] = NewItem(analysisResult', now)
                              /\ lastAlert' = ""
                   contribution == /\ currentScreen' = "contribution"
                                   /\ pendingContributionBarcode' = Str(r.barcode)
                                   /\ lastAlert' = ""
                   failed == /\ lastAlert' # ""
                             /\ currentScreen' = currentScreen
                             /\ nScans' = nScans
               IN /\ st \in 200..299 => results
                  /\ st = 404 => contribution
                  /\ (st \notin 200..299 /\ st # 404) => failed
                  /\ Cardinality({o \in {1, 2, 3} :
                                    \/ o = 1 /\ results
                                    \/ o = 2 /\ contribution
                                    \/ o = 3 /\ failed}) = 1
       /\ \A r \in scans :
            ScanNetworkError(r) =>
               lastAlert' # "" /\ currentScreen' = currentScreen /\ nScans' = nScans]_vars

\* C11: (SpecScan) in the FoodAnalysis a scan builds, an alternative whose
\* entry has neither grade nor score gets grade 'B' and score 70, a primary
\* product whose analysis has neither gets 'C' and 50, and every alternative is
\* what its own entry alone maps to.
C11_AlternativeDefaults ==
    [][\A r \in scans, body \in ScanBodies :
          ScanSucceeded(r, 200, body) =>
             LET g == Coalesce(Get(body, "data"), body)
                 an == Get(g, "gemini_analysis")
                 recs == Get(g, "recommendations")
                 n == IF recs.t = "array" THEN Len(recs.a) ELSE 0
                 alts == analysisResult'.alternatives
             IN /\ Len(alts) = n
                /\ (IsNullish(Get(an, "grade")) /\ IsNullish(Get(an, "score"))) =>
                      /\ analysisResult'.grade = Str("C")
                      /\ analysisResult'.score = Num(50)
                /\ \A i \in 1..n :
                      /\ LET ra == Get(recs.a[i], "analysis")
                         IN (IsNullish(Get(ra, "grade")) /\ IsNullish(Get(ra, "score"))) =>
                               /\ alts[i].grade = Str("B")
                               /\ alts[i].score = Num(70)
                      /\ alts[i] = ScanFoodAnalysis(
                                      Obj("recommendations" :> Arr(<<recs.a[i]>>)),
                                      <<>>).alternatives[1]]_vars

\* C11 witness: a scan showed a product without grade and score, its first
\* alternative without either, its second alternative with both
C11_Witness ==
    /\ analysisResult # Null
    /\ currentScreen = "results"
    /\ analysisResult.gemini_analysis = Obj("reasoning" :> Str("No data"))
    /\ analysisResult.grade = Str("C")
    /\ analysisResult.score = Num(50)
    /\ Len(analysisResult.alternatives) = 2
    /\ analysisResult.alternatives[1].grade = Str("B")
    /\ analysisResult.alternatives[1].score = Num(70)
    /\ analysisResult.alternatives[2].grade = Str("A")
    /\ analysisResult.alternatives[2].score = Num(90)

\* the keyword table as a set per lowercased label; any other label is its
\* own single keyword
TableKeywords(label) ==
    CASE label = "peanuts" -> {"peanut", "groundnut"}
      [] label = "nuts" -> {"almond", "walnut", "cashew", "pistachio", "nut"}
      [] label = "milk" -> {"milk", "dairy", "lactose", "cheese", "yogurt", "cream", "butter"}
      [] label = "eggs" -> {"egg", "albumin"}
      [] label = "soy" -> {"soy", "soya", "soybean", "tofu"}
      [] label = "wheat" -> {"wheat", "gluten", "flour", "maida"}
      [] OTHER -> {label}

\* the registered allergens, in profile order, with a keyword in the text
ExpectedAllergens(text, allergens) ==
    SelectSeq(allergens,
              LAMBDA a : \E kw \in TableKeywords(toLowerCase(a)) :
                            includes(toLowerCase(text), kw))

\* C12: (SpecAllergen) detectedAllergens of a scan is exactly the list of the
\* user's registered allergens, in profile order, of which a keyword (the
\* table entry of the lowercased label, else the lowercased label itself) is a
\* substring of the lowercased ingredients text; 'wheat' is detected in 'whole
\* wheat flour', 'nuts' in 'almond milk' and in 'nutmeg', 'soy' not in 'rice,
\* water', and 'Milk/Dairy' is tested as the keyword 'milk/dairy'.
C12_DetectedAllergens ==
    [][\A r \in scans, text \in IngredientTexts :
          ScanSucceeded(r, 200, BodyIngredients(text)) =>
             LET found == analysisResult'.detectedAllergens
                 Found(a) == \E i \in 1..Len(found) : found[i] = a
             IN /\ found = ExpectedAllergens(text, r.allergens)
                /\ (r.allergens = <<"wheat">> /\ text = "whole wheat flour") => Found("wheat")
                /\ (r.allergens = <<"nuts">> /\ text = "almond milk") => Found("nuts")
                /\ (r.allergens = <<"nuts">> /\ text = "nutmeg") => Found("nuts")
                /\ (r.allergens = <<"soy">> /\ text = "rice, water") => ~Found("soy")
                /\ (r.allergens = <<"Milk/Dairy">>) =>
                      (Found("Milk/Dairy") <=> includes(toLowerCase(text), "milk/dairy"))]_vars

\* C12 witness: a scan of 'Milk/Dairy solids, SOYA lecithin' for the profile
\* Wheat/Gluten, Soy, nuts detected Soy alone
C12_Witness ==
    /\ analysisResult # Null
    /\ currentScreen = "results"
    /\ userAllergens = <<"Wheat/Gluten", "Soy", "nuts">>
    /\ analysisResult.ingredients = <<Str("Milk/Dairy solids, SOYA lecithin")>>
    /\ analysisResult.detectedAllergens = <<"Soy">>

\* C13: (SpecScan) the product is read from original_product and, when that
\* key is absent, from product; the analysis from gemini_analysis and, when
\* absent, from analysis: data carried under product and analysis gives the
\* FoodAnalysis that the same data gives under original_product and
\* gemini_analysis.
C13_OtherKeysRead ==
    [][\A r \in scans, body \in ScanBodies :
          ScanSucceeded(r, 200, body) =>
             LET g == Coalesce(Get(body, "data"), body)
                 prod == Coalesce(Get(g, "original_product"),
                                  Coalesce(Get(g, "product"), EmptyObj))
                 an == Coalesce(Get(g, "gemini_analysis"),
                                Coalesce(Get(g, "analysis"), EmptyObj))
             IN /\ analysisResult'.gemini_analysis = an
                /\ analysisResult'.productName =
                      OrElse(Get(prod, "product_name"),
                             OrElse(Get(prod, "name"), Str("Unknown Product")))
                /\ Get(an, "grade") \in GradeValues =>
                      analysisResult'.grade = Get(an, "grade")
                /\ body = BodyOtherKeys =>
                      analysisResult' = ScanFoodAnalysis(BodySameData, r.allergens)]_vars

\* the macro string for the first key, in order, that holds a number
FirstNumeric(nutriments, keys, unit) ==
    LET hits == {i \in 1..Len(keys) : Get(nutriments, keys[i]).t = "number"}
    IN IF hits = {} THEN Str("N/A")
       ELSE Str(ToString(Get(nutriments, keys[CHOOSE i \in hits : \A j \in hits : i <= j]).n)
                \o unit)

\* C14: (SpecScan) each macro string is '<v> kcal' (calories) or '<v>g'
\* (protein, carbs, fat) for the value v under the first synonym key, in the
\* listed order, that holds a numeric value, and exactly 'N/A' when no synonym
\* key holds a numeric value.
C14_MacroStrings ==
    [][\A r \in scans, body \in ScanBodies :
          ScanSucceeded(r, 200, body) =>
             LET g == Coalesce(Get(body, "data"), body)
                 nutriments == Get(Get(g, "original_product"), "nutriments")
                 m == analysisResult'.macros
             IN /\ m.calories = FirstNumeric(nutriments,
                       <<"energy-kcal_100g", "energy_kcal_100g", "calories_100g">>, " kcal")
                /\ m.protein = FirstNumeric(nutriments,
                       <<"proteins_100g", "protein_100g", "protein">>, "g")
                /\ m.carbs = FirstNumeric(nutriments,
                       <<"carbohydrates_100g", "carbohydrate_100g", "carbs_100g">>, "g")
                /\ m.fat = FirstNumeric(nutriments,
                       <<"fat_100g", "fats_100g", "total_fat_100g">>, "g")]_vars

\* C15: (Spec) every barcode the scanner screen hands to the scan handler,
\* from the camera decoder, the manual entry or the test button, consists of
\* digits only, at least 6 of them: no request is in flight for any other string.
C15_OnlyValidBarcodes ==
    \A r \in scans :
        /\ Len(r.barcode) >= 6
        /\ \A i \in 1..Len(r.barcode) :
             SubSeq(r.barcode, i, i) \in {"0", "1", "2", "3", "4", "5", "6", "7", "8", "9"}

\* C16: (Spec) every request sent to POST /products/scan/{barcode} carries
\* the header Authorization: 'Bearer t', t being the non-empty ID token of the
\* user authenticated when the request is sent.
C16_BearerToken ==
    \A r \in scans :
        /\ r.uid \in Users
        /\ r.authorization = "Bearer " \o "idtoken-" \o r.uid
        /\ Len(r.authorization) > Len("Bearer ")

\* C17: (Spec) a contribution the endpoint accepts with a success status, its
\* body reporting success with the product's data, ends with exactly one new
\* HistoryItem at the head of the history and the results screen showing the
\* FoodAnalysis built from the contribution response.
C17_ContributionAppends ==
    [][\A c \in contribs, st \in ContribStatuses, d \in AppContribBodies :
          (st \in 200..299 /\ ContribAccepted(c, st, d)) =>
             /\ currentScreen' = "results"
             /\ analysisResult' = ContribFoodAnalysis(d)
             /\ Len(scanHistory') > 0
             /\ scanHistory'[1] = NewItem(ContribFoodAnalysis(d), now)
             /\ Len(scanHistory') = IF Len(scanHistory) = HISTORY_CAP
                                    THEN HISTORY_CAP ELSE Len(scanHistory) + 1
             /\ \A i \in 2..Len(scanHistory') : scanHistory'[i] = scanHistory[i - 1]]_vars

\* C18: (Spec) on the contribution screen a 429 answer of POST /contribute/
\* leads to the 'success' step (or on to the results the success callback
\* opens) and never to the 'error' step, whatever the response body; every
\* other non-2xx status leads to the 'error' step and the success callback is
\* not invoked.
C18_RateLimitThanked ==
    [][\A c \in contribs, st \in ContribStatuses, d \in AppContribBodies :
          (/\ c.live
           /\ \/ ContribErrored(c, st, d)
              \/ ContribThanked(c, st, d)
              \/ ContribAccepted(c, st, d)) =>
             /\ st = 429 =>
                   /\ step' # "error"
                   /\ step' = "success" \/ currentScreen' = "results"
             /\ (st \notin 200..299 /\ st # 429) =>
                   /\ step' = "error"
                   /\ UNCHANGED <<currentScreen, analysisResult, scanHistory, localStorage>>]_vars

\* C19: (Spec) the FoodAnalysis built from a successful contribution payload
\* has the defaults of a scan: a grade that is not one of A,B,C,D,F becomes
\* 'C', a missing or non-numeric score becomes 50 and a numeric score (0
\* included) is kept, an alternative without grade or score gets 'B' or 70,
\* and no field of the FoodAnalysis or of its alternatives is undefined.
C19_ContributionDefaults ==
    [][\A c \in contribs, st \in ContribStatuses, d \in AppContribBodies :
          ContribAccepted(c, st, d) =>
             LET g == Get(d, "data")
                 an == Get(g, "gemini_analysis")
                 recs == Get(g, "recommendations")
                 n == IF recs.t = "array" THEN Len(recs.a) ELSE 0
                 fa == analysisResult'
             IN /\ fa.grade = IF Get(an, "grade") \in GradeValues
                              THEN Get(an, "grade") ELSE Str("C")
                /\ fa.score = IF Get(an, "score").t = "number"
                              THEN Get(an, "score") ELSE Num(50)
                /\ Len(fa.alternatives) = n
                /\ \A i \in 1..n :
                      LET ra == Get(recs.a[i], "analysis")
                      IN /\ IsNullish(Get(ra, "grade")) => fa.alternatives[i].grade = Str("B")
                         /\ IsNullish(Get(ra, "score")) => fa.alternatives[i].score = Num(70)
                /\ AllFieldsDefined(fa)]_vars

\* C20: (SpecChat) every chat send with non-blank text gets exactly one
\* assistant message, no later than 45 seconds after its request started: no
\* send is still unanswered more than 45000 ms after its start, and the
\* assistant messages are as many as the sends that ended.
C20_ChatAnsweredInTime ==
    /\ \A r \in chatReqs : chatClock - r.started <= 45000
    /\ Cardinality({i \in 1..Len(messages) : messages[i].role = "assistant"})
          = nChats - Cardinality(chatReqs)
    /\ Cardinality({i \in 1..Len(messages) : messages[i].role = "user"}) = nChats

\* C21: (SpecRace) when scans are in flight at once and succeed, each
\* response that arrives becomes the value of analysisResult and the result
\* shown on the results screen, so the later one wins, and each is appended to
\* the history on arrival, ahead of the items already there.
C21_LaterResponseWins ==
    [][\A r \in scans, body \in {BodyChocoBar, BodySameData} :
          (ScanSucceeded(r, 200, body) /\ \E o \in scans : o # r) =>
             LET fa == ScanFoodAnalysis(body, r.allergens)
             IN /\ analysisResult' = fa
                /\ currentScreen' = "results"
                /\ Len(scanHistory') = Len(scanHistory) + 1
                /\ scanHistory'[1].fullAnalysis = fa
                /\ \A i \in 1..Len(scanHistory) : scanHistory'[i + 1] = scanHistory[i]]_vars

\* C22: (SpecAuth) for the provider's error code auth/invalid-credential both
\* sign-in paths report an incorrect password: the auth screen's submit
\* handler sets its fixed message, and the error authService.signIn throws
\* carries the service's incorrect-password text, never an account-not-found one.
C22_InvalidCredentialIsWrongPassword ==
    [][\A rej \in Rejections :
          rej.code = IC =>
             /\ (SubmitRejected(rej) /\ submitAlive) => error' = INCORRECT_PASSWORD
             /\ signInRejected(rej) =>
                   thrown'.message \in {INCORRECT_PASSWORD,
                                        getErrorMessage("auth/wrong-password")}]_vars

NoDuplicate(list) == \A i, j \in 1..Len(list) : list[i] = list[j] => i = j

\* C23: (SpecProfile) after any sequence of toggles and custom additions on
\* the profile and onboarding screens, neither the conditions nor the
\* allergens of the profile hold the same string twice.
C23_NoDuplicateTags == NoDuplicate(userAllergens) /\ NoDuplicate(userConditions)

\* C23 witness: both screens have acted on both lists: a custom allergen
\* typed with blanks sits next to option labels, a custom condition next to one.
C23_Witness ==
    /\ userAllergens = <<"Peanuts", "Soy", "Gluten">>
    /\ userConditions = <<"PCOS / PCOD", "PCOS">>

\* C26: (SpecAuth) while the submit handler that signed in a user with an
\* unverified e-mail address is still running (it sends the verification
\* mail of a new account, or undoes the sign-in), the app shows the auth
\* screen, whether or not the listener has been called.
C26_UnverifiedStaysOnAuth ==
    submitPc.pc \in {"sendVerification", "signOut"} => currentScreen = "auth"

\* C24: (Spec) any two items of the in-memory history have different ids,
\* whatever the clock read when they were appended.
C24_DistinctIds ==
    \A i, j \in 1..Len(scanHistory) : scanHistory[i].id = scanHistory[j].id => i = j

\* C25: (Spec) when the authentication state is resolved and nobody is signed
\* in, the auth screen is shown; no scan or contribution that completes after
\* sign-out moves the app elsewhere.
C25_SignedOutShowsAuth == (~loading /\ user = NoUser) => currentScreen = "auth"

\* C27: (Spec) the results screen is selected only with an analysis to show
\* and the contribution screen only with a non-empty barcode pending.
C27_SelectedScreenRenders ==
    /\ currentScreen = "results" => analysisResult # Null
    /\ currentScreen = "contribution" =>
          /\ pendingContributionBarcode # Null
          /\ pendingContributionBarcode.t = "string"
          /\ pendingContributionBarcode.s # ""

\* C27 witness: both screens have been selected in one run: the contribution
\* screen is shown for a barcode while the analysis of an earlier scan is kept.
C27_Witness ==
    /\ currentScreen = "contribution"
    /\ pendingContributionBarcode = Str("abc")
    /\ analysisResult # Null

\* C28: (Spec) a scan or contribution that completes while a user other than
\* the one who started it is signed in adds nothing to the history shown to
\* that user and changes no list persisted under another user's id.
C28_HistoryOfOneUser ==
    [][/\ \A r \in scans, body \in AppBodies :
            (ScanSucceeded(r, 200, body) /\ user # NoUser /\ r.uid # user) =>
               /\ scanHistory' = scanHistory
               /\ \A u \in DOMAIN localStorage :
                     u # r.uid => localStorage'[u] = localStorage[u]
       /\ \A c \in contribs, data \in AppContribBodies :
            (ContribAccepted(c, 200, data) /\ user # NoUser /\ c.uid # user) =>
               /\ scanHistory' = scanHistory
               /\ \A u \in DOMAIN localStorage :
                     u # c.uid => localStorage'[u] = localStorage[u]]_vars

\* C29: (Spec) clicking an item of the history shows the results screen with
\* the item's stored full analysis, or a minimal one where the item has none,
\* and changes neither the in-memory history nor any persisted list.
C29_HistoryClickShowsItem ==
    [][\A i \in 1..Len(scanHistory) :
          handleHistoryItemClick(i) =>
             /\ analysisResult' # Null
             /\ scanHistory[i].fullAnalysis \notin {Undefined, Null} =>
                   analysisResult' = scanHistory[i].fullAnalysis
             /\ scanHistory[i].fullAnalysis \in {Undefined, Null} =>
                   analysisResult'.productName = scanHistory[i].name
             /\ currentScreen' = "results"
             /\ scanHistory' = scanHistory
             /\ localStorage' = localStorage]_vars

\* C29 witness: with two different items in the history the older one was
\* clicked: its analysis is shown, the list and the stored copy are as before
C29_Witness ==
    /\ Len(scanHistory) = 2
    /\ currentScreen = "results"
    /\ analysisResult = scanHistory[2].fullAnalysis
    /\ analysisResult # scanHistory[1].fullAnalysis
    /\ user \in DOMAIN localStorage
    /\ Len(localStorage[user]) = 2

\* C30: (SpecChat) the typing indicator is on exactly while at least one chat
\* request is in flight, for any interleaving of sends and answers.
C30_TypingWhileInFlight == isTyping <=> chatReqs # {}

====
